---- MODULE Spec2Model ----
(***************************************************************************)
(* AcademiaX: Streamlit landing page (main.py), student portal             *)
(* (ollama.py, pages/Students.py) and teacher portal (teacher_page.py,     *)
(* pages/Teacher.py, teacher_functions.py) over one SQLite database and a  *)
(* local LLM reached over HTTP.                                            *)
(*                                                                         *)
(* Python strings are TLA+ strings when they are only compared, and        *)
(* sequences of non-empty pieces when their emptiness or length matters.   *)
(* Python None / SQL NULL is the value NULL.                               *)
(***************************************************************************)
EXTENDS Integers, Sequences, FiniteSets, TLC

NULL == "NULL"

\* ------------------------------------------------------------------------
\* Bounds of the timetable inputs
\* ------------------------------------------------------------------------
MaxFacLines == 3
MaxSlotLines == 6
MaxCourseLines == 2

\* teacher_page.py:330  number_input(..., max_value=8)
MaxHoursLimit == 8

VARIABLES
    ttFaculty,   \* text area "Faculty (one per line)", split into lines
    ttSlots,     \* text area "Time slots (one per line)", split into lines
    ttCourses,   \* text area "courses" / "Subjects", split into lines
    ttMax,       \* number input "Max hours per faculty per day"
    ttOut        \* what the last timetable handler produced

ttVars == <<ttFaculty, ttSlots, ttCourses, ttMax, ttOut>>

VARIABLES
    llmServer,   \* how the Ollama server answers the next HTTP request
    llmModel,    \* sidebar text input "Model"
    llmBaseUrl,  \* sidebar text input "Ollama Base URL"
    llmRequests, \* the HTTP requests sent so far
    llmRet       \* outcome of the last call_local_llm_chat

llmVars == <<llmServer, llmModel, llmBaseUrl, llmRequests, llmRet>>

VARIABLES
    now,         \* CURRENT_TIMESTAMP of the database, in seconds
    users,       \* table users of academiax.db, in id order
    registered,  \* history: the (username, password) pairs for which
                 \* main.register_user has returned success
    app,         \* the script the browser session is running
    session      \* st.session_state of that browser session

acctVars == <<now, users, registered, app, session>>

VARIABLES
    timetables,        \* table timetables, in id order
    teacher_materials  \* table teacher_materials, in id order

teachVars == <<timetables, teacher_materials>>

VARIABLES
    uploader,      \* the files held by the page's st.file_uploader widget
    topic,         \* teacher_page.py, text input "Topic/Chapter"
    uploads,       \* table uploads, in id order
    chat_history,  \* table chat_history, in id order
    runLog         \* the storage, retrieval and LLM calls of the last step,
                   \* in call order

chatVars == <<uploader, topic, uploads, chat_history, runLog>>

VARIABLES
    question_papers  \* table question_papers, in id order

VARIABLES
    usersColumns \* the columns of the users table as PRAGMA table_info lists
                 \* them, {} when the database has no users table

VARIABLES
    callArgs,    \* the arguments of the last call of a function studied on
                 \* its own
    callRet      \* what that call returned

fnVars == <<callArgs, callRet>>

VARIABLES
    conns        \* the sqlite3 connections of the register_user calls that
                 \* run at the same time, and how far each call has come

\* The variables outside the pages and the tables they work on
extraVars == <<fnVars, usersColumns, question_papers, conns>>

\* ------------------------------------------------------------------------
\* Lines of the text areas
\* ------------------------------------------------------------------------
\* The lines a user may type for a faculty member or a course; some carry
\* surrounding blanks, some are blank.
FacLineChoices == {"", "A", " B ", "C"}
CourseLineChoices == {" ", "Math", "Phys "}

\* The time-slot text area: the first n lines of this text.
SlotText == <<"Mon 09:00-10:00", "  ", "Mon 10:00-11:00", "Tue 09:00-10:00",
              "Tue", "Wed 09:00-10:00 ", "Wed 10:00-11:00", "Thu 09:00-10:00",
              "Thu 10:00-11:00", "Fri">>

\* str.strip() on the lines above
Strip(s) ==
    CASE s = "" -> ""
      [] s = " " -> ""
      [] s = "  " -> ""
      [] s = " B " -> "B"
      [] s = "Phys " -> "Phys"
      [] s = "Wed 09:00-10:00 " -> "Wed 09:00-10:00"
      [] OTHER -> s

\* str.split() on the stripped time slots: the whitespace-separated words
SplitWords(s) ==
    CASE s = "" -> <<>>
      [] s = "Mon 09:00-10:00" -> <<"Mon", "09:00-10:00">>
      [] s = "Mon 10:00-11:00" -> <<"Mon", "10:00-11:00">>
      [] s = "Tue 09:00-10:00" -> <<"Tue", "09:00-10:00">>
      [] s = "Tue" -> <<"Tue">>
      [] s = "Wed 09:00-10:00" -> <<"Wed", "09:00-10:00">>
      [] s = "Wed 10:00-11:00" -> <<"Wed", "10:00-11:00">>
      [] s = "Thu 09:00-10:00" -> <<"Thu", "09:00-10:00">>
      [] s = "Thu 10:00-11:00" -> <<"Thu", "10:00-11:00">>
      [] s = "Fri" -> <<"Fri">>
      [] OTHER -> <<s>>

\* f"Day{n}", f"Period {n}", f"Subject {n}"
DayLabel(n) == <<"Day", n>>
PeriodLabel(n) == <<"Period", n>>
SubjectLabel(n) == <<"Subject", n>>

\* [s.strip() for s in lines if s.strip()]
StripLines(lines) ==
    LET kept == SelectSeq(lines, LAMBDA s : Strip(s) # "")
    IN  [i \in 1..Len(kept) |-> Strip(kept[i])]

SeqsUpTo(S, n) == UNION {[1..k -> S] : k \in 0..n}

\* ------------------------------------------------------------------------
\* pages/Teacher.py: "Timetable generator (round-robin)"
\* ------------------------------------------------------------------------
\* A rotation that advances the faculty index only with the course index.
RECURSIVE RowsLoop_SharedIndex(_, _, _, _, _, _, _)
RowsLoop_SharedIndex(sl, fac, co, k, fi, ci, rows) ==
    IF k > Len(sl) THEN rows
    ELSE
        LET slot == sl[k]
            faculty == fac[(ci % Len(fac)) + 1]
        IN  IF co # <<>>
            THEN RowsLoop_SharedIndex(sl, fac, co, k + 1, fi + 1, ci + 1,
                     Append(rows, [TimeSlot |-> slot, Faculty |-> faculty,
                                   Course |-> co[(ci % Len(co)) + 1]]))
            ELSE RowsLoop_SharedIndex(sl, fac, co, k + 1, fi + 1, ci,
                     Append(rows, [TimeSlot |-> slot, Faculty |-> faculty]))

RECURSIVE RowsLoop(_, _, _, _, _, _, _)
RowsLoop(sl, fac, co, k, fi, ci, rows) ==
    IF k > Len(sl) THEN rows
    ELSE
        LET slot == sl[k]
            faculty == fac[(fi % Len(fac)) + 1]
        IN  IF co # <<>>
            THEN RowsLoop(sl, fac, co, k + 1, fi + 1, ci + 1,
                     Append(rows, [TimeSlot |-> slot, Faculty |-> faculty,
                                   Course |-> co[(ci % Len(co)) + 1]]))
            ELSE RowsLoop(sl, fac, co, k + 1, fi + 1, ci,
                     Append(rows, [TimeSlot |-> slot, Faculty |-> faculty]))

BuildSchedule(faculty, slots, courses) ==
    LET fac == StripLines(faculty)
        sl == StripLines(slots)
        co == StripLines(courses)
    IN  IF fac = <<>> \/ sl = <<>>
        THEN [status |-> "warning", rows |-> <<>>]
        ELSE LET rows == RowsLoop(sl, fac, co, 1, 0, 0, <<>>)
             IN  IF rows # <<>>
                 THEN [status |-> "generated", rows |-> rows]
                 ELSE [status |-> "nothing", rows |-> <<>>]

\* ------------------------------------------------------------------------
\* teacher_functions.py: generate_smart_timetable
\* ------------------------------------------------------------------------
\* Picking the most loaded instead of the least loaded faculty.
MinOf_Max(S) == CHOOSE x \in S : \A y \in S : x >= y

MinOf(S) == CHOOSE x \in S : \A y \in S : x <= y

Range(f) == {f[x] : x \in DOMAIN f}

\* constraints.get("max_hours_per_faculty") is truthy
HasMaxHours(constraints) ==
    /\ "max_hours_per_faculty" \in DOMAIN constraints
    /\ constraints["max_hours_per_faculty"] # 0

\* An off-by-one limit test.
LimitReached_OffByOne(constraints, load) ==
    /\ HasMaxHours(constraints)
    /\ load > constraints["max_hours_per_faculty"]

LimitReached(constraints, load) ==
    /\ HasMaxHours(constraints)
    /\ load >= constraints["max_hours_per_faculty"]

RECURSIVE SmartLoop(_, _, _, _, _, _, _)
SmartLoop(faculty_list, time_slots, subjects, constraints, slot_idx, schedule, faculty_workload) ==
    IF slot_idx >= Len(time_slots) THEN schedule
    ELSE
        LET slot == time_slots[slot_idx + 1]
            slot_parts == SplitWords(Strip(slot))
            day == IF slot_parts # <<>> THEN slot_parts[1]
                   ELSE DayLabel(slot_idx + 1)
            time == IF Len(slot_parts) > 1 THEN Tail(slot_parts)
                    ELSE PeriodLabel(slot_idx + 1)
            least == MinOf(Range(faculty_workload))
            available_faculty ==
                SelectSeq(faculty_list, LAMBDA f : faculty_workload[f] = least)
            selected_faculty ==
                available_faculty[(slot_idx % Len(available_faculty)) + 1]
            selected_subject ==
                IF subjects # <<>>
                THEN subjects[(slot_idx % Len(subjects)) + 1]
                ELSE SubjectLabel(slot_idx + 1)
            entry == [Day |-> day, Time |-> time, Subject |-> selected_subject,
                      Faculty |-> selected_faculty,
                      Room |-> (slot_idx % 10) + 1]
        IN  IF LimitReached(constraints, faculty_workload[selected_faculty])
            THEN SmartLoop(faculty_list, time_slots, subjects, constraints,
                           slot_idx + 1, schedule, faculty_workload)
            ELSE SmartLoop(faculty_list, time_slots, subjects, constraints,
                           slot_idx + 1, Append(schedule, entry),
                           [faculty_workload EXCEPT ![selected_faculty] = @ + 1])

generate_smart_timetable(faculty_list, time_slots, subjects, constraints) ==
    IF faculty_list = <<>> \/ time_slots = <<>> THEN <<>>
    ELSE SmartLoop(faculty_list, time_slots, subjects, constraints, 0, <<>>,
                   [f \in Range(faculty_list) |-> 0])

\* teacher_page.py, "Generate Timetable": the lists it passes on and the
\* schedule it gets back.
SmartTimetable(faculty_input, slots_input, subjects_input, max_hours) ==
    LET faculty_list == StripLines(faculty_input)
        slots_list == StripLines(slots_input)
        subjects_list == StripLines(subjects_input)
    IN  IF faculty_list = <<>> \/ slots_list = <<>>
        THEN [status |-> "error", rows |-> <<>>]
        ELSE LET timetable_data ==
                     generate_smart_timetable(faculty_list, slots_list,
                         subjects_list, [max_hours_per_faculty |-> max_hours])
             IN  IF timetable_data # <<>>
                 THEN [status |-> "smart", rows |-> timetable_data]
                 ELSE [status |-> "nothing", rows |-> <<>>]

\* ------------------------------------------------------------------------
\* ollama.py: call_local_llm_chat
\* ------------------------------------------------------------------------
\* A Python string whose emptiness matters is the sequence of its non-empty
\* pieces; "" is <<>> and + is \o.
Str(piece) == <<piece>>

\* JSON values: objects map keys to JSON values.
JNull == [t |-> "null", s |-> <<>>, f |-> <<>>]
JStr(s) == [t |-> "str", s |-> s, f |-> <<>>]
JObj(f) == [t |-> "obj", s |-> <<>>, f |-> f]
JList == [t |-> "list", s |-> <<>>, f |-> <<>>]
\* a body that is not JSON: resp.json() raises
NotJson == [t |-> "invalid", s |-> <<>>, f |-> <<>>]

\* dict.get(key, default)
DictGet(obj, key, default) ==
    IF key \in DOMAIN obj.f THEN obj.f[key] ELSE default

\* Python truthiness of a JSON string or null
Truthy(v) == v.t = "str" /\ v.s # <<>>

\* base_url.rstrip("/")
RStripSlash(url) ==
    CASE url = "http://localhost:11434/" -> "http://localhost:11434"
      [] OTHER -> url

\* The exception classes that reach the handlers, with the requests class
\* hierarchy: ConnectTimeout is a ConnectionError, ReadTimeout is not.
IsConnectionError(exc) == exc.class \in {"ConnectionError", "ConnectTimeout"}
IsHTTPError(exc) == exc.class = "HTTPError"

Returned(v) == [raised |-> FALSE, value |-> v]
Raised(class, text) == [raised |-> TRUE, class |-> class, text |-> text]

\* requests.post + resp.raise_for_status(): the exception raised, if any
PostOutcome(server) ==
    CASE server.kind = "refused" -> Raised("ConnectionError", Str("refused"))
      [] server.kind = "connect_timeout" ->
             Raised("ConnectTimeout", Str("timed out"))
      [] server.kind = "read_timeout" ->
             Raised("ReadTimeout", Str("read timed out"))
      [] server.kind = "error_without_text" -> Raised("RuntimeError", <<>>)
      [] server.status >= 400 /\ server.status < 600 ->
             Raised("HTTPError", Str("status"))
      [] OTHER -> Returned(<<>>)

\* A reply whose empty content is passed on as it is.
ReplyContent_NoDefault(data) ==
    IF data.t = "invalid" THEN Raised("JSONDecodeError", Str("Expecting value"))
    ELSE IF data.t # "obj"
    THEN Raised("AttributeError", Str("no attribute 'get'"))
    ELSE LET msg == DictGet(data, "message", JObj(<<>>))
         IN  IF msg.t # "obj"
             THEN Raised("AttributeError", Str("no attribute 'get'"))
             ELSE Returned(DictGet(msg, "content", JStr(<<>>)).s)

\* data = resp.json(); msg = data.get("message", {});
\* content = msg.get("content", ""); return content or "No response from LLM."
ReplyContent(data) ==
    IF data.t = "invalid" THEN Raised("JSONDecodeError", Str("Expecting value"))
    ELSE IF data.t # "obj"
    THEN Raised("AttributeError", Str("no attribute 'get'"))
    ELSE LET msg == DictGet(data, "message", JObj(<<>>))
         IN  IF msg.t # "obj"
             THEN Raised("AttributeError", Str("no attribute 'get'"))
             ELSE LET content == DictGet(msg, "content", JStr(<<>>))
                  IN  IF Truthy(content) THEN Returned(content.s)
                      ELSE Returned(Str("No response from LLM."))

CannotConnectMsg ==
    Str("Cannot connect to Ollama server. Please check if Ollama is running.")
ModelNotFoundMsg(model) ==
    Str("Model '") \o model \o Str("' not found. Try pulling it with 'ollama pull ")
        \o model \o Str("'")
HttpErrorMsg(status, text) ==
    Str("HTTP error ") \o Str(ToString(status)) \o Str(": ") \o text
LocalErrorMsg(text) == Str("Local LLM error: ") \o text

\* The value call_local_llm_chat returns, or the exception it lets through.
call_local_llm_chat(server, model) ==
    LET post == PostOutcome(server)
        body == IF post.raised THEN post ELSE ReplyContent(server.json)
    IN  IF ~body.raised THEN body
        ELSE IF IsConnectionError(body) THEN Returned(CannotConnectMsg)
        ELSE IF IsHTTPError(body)
        THEN IF server.status = 404 THEN Returned(ModelNotFoundMsg(model))
             ELSE Returned(HttpErrorMsg(server.status, server.text))
        ELSE Returned(LocalErrorMsg(body.text))

\* The request call_local_llm_chat sends.
ChatRequest(base_url) ==
    [method |-> "POST", url |-> <<RStripSlash(base_url), "/api/chat">>]

\* The answers of the server: no connection, or a response with a status,
\* a body text and the JSON value the body parses to.
ReplyBodies ==
    { NotJson, JNull, JList, JObj(<<>>),
      JObj([message |-> JNull]),
      JObj([message |-> JObj(<<>>)]),
      JObj([message |-> JObj([content |-> JNull])]),
      JObj([message |-> JObj([content |-> JStr(<<>>)])]),
      JObj([message |-> JObj([content |-> JStr(Str("An answer."))])]) }

ServerAnswers ==
    {[kind |-> k, status |-> 0, text |-> <<>>, json |-> NotJson] :
         k \in {"refused", "connect_timeout", "read_timeout",
                "error_without_text"}}
    \cup {[kind |-> "response", status |-> 200, text |-> Str("json"), json |-> j] :
              j \in ReplyBodies}
    \cup {[kind |-> "response", status |-> st, text |-> tx, json |-> NotJson] :
              st \in {400, 404, 500}, tx \in {<<>>, Str("model not loaded")}}

ModelChoices == {<<>>, Str("llama3.2")}
BaseUrlChoices == {"http://localhost:11434", "http://localhost:11434/"}

\* ------------------------------------------------------------------------
\* The users table and the functions of main.py and ollama.py on it
\* ------------------------------------------------------------------------
NoId == 0      \* None where the code expects a row id
NoTime == -1   \* NULL in a TIMESTAMP column

\* The clock of the database stops at MaxClock.
MaxClock == 1

\* What is typed into the forms.
Usernames == {"ann", "bob"}
Passwords == {"", "abc", "secret1", "hunter22"}
EmailChoices == {"", "bob@example.com"}
FullNameChoices == {"", "Ann Lee"}
RoleChoices == {"student", "teacher"}

\* len(password)
PasswordLen(p) ==
    CASE p = "" -> 0
      [] p = "abc" -> 3
      [] p = "secret1" -> 7
      [] p = "hunter22" -> 8

\* hashlib.sha256(password.encode()).hexdigest(): a digest is a function of
\* the password and is many-to-one; in this table two of the passwords share
\* a digest, so that "same digest" and "same password" are different things.
Sha256Hex(p) ==
    CASE p = "" -> "sha256:e3b0"
      [] p = "abc" -> "sha256:ba78"
      [] p = "secret1" -> "sha256:5b11"
      [] p = "hunter22" -> "sha256:5b11"

\* main.py
hash_password(password) == Sha256Hex(password)

\* A portal hash that is not the hash of the main platform.
hash_pw_Md5(password) ==
    CASE password = "" -> "md5:d41d"
      [] password = "abc" -> "md5:9001"
      [] password = "secret1" -> "md5:e52d"
      [] password = "hunter22" -> "md5:2ab9"

\* ollama.py
hash_pw(password) == Sha256Hex(password)

\* f"{username}@example.com"
DefaultEmail(username) ==
    CASE username = "ann" -> "ann@example.com"
      [] username = "bob" -> "bob@example.com"

\* The UNIQUE constraints of users that an INSERT of row would violate.
\* NULL emails never collide.
UniqueViolations(table, row) ==
    {c \in {"users.username", "users.email"} :
        \E i \in 1..Len(table) :
            \/ c = "users.username" /\ table[i].username = row.username
            \/ c = "users.email" /\ row.email # NULL
                                 /\ table[i].email = row.email}

\* INSERT INTO users: the row gets the next AUTOINCREMENT id (rows of users
\* are never deleted), or sqlite3.IntegrityError "UNIQUE constraint failed:
\* <column>" is raised.  When several constraints fail, which one SQLite
\* names is up to the SQLite build.
InsertUser(table, row) ==
    IF UniqueViolations(table, row) = {}
    THEN {[raised |-> FALSE, error |-> "",
           users |-> Append(table, [row EXCEPT !.id = Len(table) + 1])]}
    ELSE {[raised |-> TRUE, error |-> c, users |-> table] :
              c \in UniqueViolations(table, row)}

\* word in str(e)
ErrorMentions(error, word) ==
    \/ word = "username" /\ error = "users.username"
    \/ word = "email" /\ error = "users.email"

\* main.py register_user: the set of its possible outcomes, each the value
\* returned and the users table afterwards.
main_register_user(table, username, email, password, role, full_name) ==
    LET row == [id |-> NoId, username |-> username,
                email |-> IF email # "" THEN email
                          ELSE DefaultEmail(username),
                password_hash |-> hash_password(password),
                role |-> role, full_name |-> full_name,
                last_login |-> NoTime]
    IN  {[ret |-> IF ~o.raised THEN <<TRUE, "Registration successful!">>
                  ELSE IF ErrorMentions(o.error, "username")
                       THEN <<FALSE, "Username already exists!">>
                  ELSE IF ErrorMentions(o.error, "email")
                       THEN <<FALSE, "Email already registered!">>
                  ELSE <<FALSE, "Registration failed!">>,
          users |-> o.users] : o \in InsertUser(table, row)}

\* ollama.py register_user: INSERT of username and password_hash only, the
\* other columns take their defaults.
ollama_register_user(table, username, password) ==
    LET row == [id |-> NoId, username |-> username, email |-> NULL,
                password_hash |-> hash_pw(password),
                role |-> "student", full_name |-> NULL,
                last_login |-> NoTime]
    IN  {[ret |-> IF ~o.raised THEN <<TRUE, NULL>>
                  ELSE <<FALSE, "Username already exists.">>,
          users |-> o.users] : o \in InsertUser(table, row)}

\* SELECT ... FROM users WHERE username=? AND password_hash=?
SelectUser(table, username, digest) ==
    {i \in 1..Len(table) : /\ table[i].username = username
                           /\ table[i].password_hash = digest}

\* A login that stamps every row instead of the row it has found.
main_authenticate_user_StampsAll(table, username, password, t) ==
    LET found == SelectUser(table, username, hash_password(password))
    IN  IF found # {}
        THEN LET result == table[CHOOSE i \in found : TRUE]
             IN  [ret |-> <<TRUE, result.id,
                            IF result.role \in {NULL, ""} THEN "student"
                            ELSE result.role,
                            IF result.full_name \in {NULL, ""} THEN username
                            ELSE result.full_name>>,
                  users |-> [i \in 1..Len(table) |->
                                [table[i] EXCEPT !.last_login = t]]]
        ELSE [ret |-> <<FALSE, NoId, NULL, NULL>>, users |-> table]

\* main.py authenticate_user at time t: the value returned and the users
\* table afterwards.
main_authenticate_user(table, username, password, t) ==
    LET found == SelectUser(table, username, hash_password(password))
    IN  IF found # {}
        THEN LET result == table[CHOOSE i \in found : TRUE]
             IN  [ret |-> <<TRUE, result.id,
                            IF result.role \in {NULL, ""} THEN "student"
                            ELSE result.role,
                            IF result.full_name \in {NULL, ""} THEN username
                            ELSE result.full_name>>,
                  users |-> [i \in 1..Len(table) |->
                                IF table[i].id = result.id
                                THEN [table[i] EXCEPT !.last_login = t]
                                ELSE table[i]]]
        ELSE [ret |-> <<FALSE, NoId, NULL, NULL>>, users |-> table]

\* ollama.py authenticate_user
ollama_authenticate_user(table, username, password) ==
    LET found == SelectUser(table, username, hash_pw(password))
    IN  IF found # {}
        THEN <<TRUE, table[CHOOSE i \in found : TRUE].id>>
        ELSE <<FALSE, NoId>>

\* A row with a NULL role and an empty full name, as
\* main.register_user("bob", "", "secret1", None) stores it: the CHECK on
\* role admits NULL, and authenticate_user provides for it.
RowWithoutRole ==
    [id |-> 1, username |-> "bob", email |-> DefaultEmail("bob"),
     password_hash |-> hash_password("secret1"), role |-> NULL,
     full_name |-> "", last_login |-> NoTime]

\* ------------------------------------------------------------------------
\* st.session_state and the scripts that share it
\* ------------------------------------------------------------------------
\* A vectorizer or matrix that is None
NoVec == [fitted |-> FALSE, docs |-> <<>>]
NoMat == [fitted |-> FALSE, rows |-> 0]

\* The keys <portal>_chunks, <portal>_vec, <portal>_mat as initialised
EmptyKB == [chunks |-> <<>>, vec |-> NoVec, mat |-> NoMat]

\* The session state after the initialisation at the top of the scripts;
\* student and teacher are the student_* and teacher_* keys.
FreshSession ==
    [authenticated |-> FALSE, user_id |-> NoId, username |-> NULL,
     role |-> NULL, full_name |-> NULL,
     student |-> EmptyKB, teacher |-> EmptyKB]

\* main.py and its pages/ run in one Streamlit server and share the session
\* state; ollama.py and teacher_page.py are servers of their own.
MainScripts == {"main.py", "pages/Students.py", "pages/Teacher.py"}
Scripts == MainScripts \cup {"ollama.py", "teacher_page.py"}

\* The scripts whose content is the teacher tabs
TeacherScripts == {"pages/Teacher.py", "teacher_page.py"}

\* A gate of the pages that only asks whether the key user_id exists.
PastGate_KeyPresent ==
    IF app = "main.py" THEN session.authenticated ELSE TRUE

\* The script has passed its session gate or login form: pages/ look at
\* user_id, main.py looks at authenticated.
PastGate ==
    IF app = "main.py" THEN session.authenticated
    ELSE session.user_id # NoId

\* json.dumps(timetable_data)
json_dumps(value) == <<"json", value>>

\* save_question_paper
save_question_paper(table, user_id, title, paper_type, content) ==
    Append(table, [id |-> Len(table) + 1, user_id |-> user_id,
                   title |-> title, paper_type |-> paper_type,
                   content |-> content])

\* save_timetable
save_timetable(table, user_id, name, data_json) ==
    Append(table, [id |-> Len(table) + 1, user_id |-> user_id,
                   name |-> name, data |-> data_json])

\* ------------------------------------------------------------------------
\* Texts of the PDFs.  A text is the sequence of its runs: a run is n
\* copies of one character, and neighbouring runs differ in the character.
\* ------------------------------------------------------------------------
Run(c, n) == [c |-> c, n |-> n]

Whitespace == {" ", "\n", "\t"}   \* \s
Stops == {".", "!", "?"}          \* [.!?]

\* len(t)
RECURSIVE TLen(_)
TLen(t) == IF t = <<>> THEN 0 ELSE Head(t).n + TLen(Tail(t))

\* a + b
TCat(a, b) ==
    IF a = <<>> THEN b
    ELSE IF b = <<>> THEN a
    ELSE IF a[Len(a)].c = b[1].c
    THEN SubSeq(a, 1, Len(a) - 1)
             \o <<Run(b[1].c, a[Len(a)].n + b[1].n)>> \o Tail(b)
    ELSE a \o b

\* t[-k:] for k > 0
RECURSIVE TLast(_, _)
TLast(t, k) ==
    IF t = <<>> THEN <<>>
    ELSE LET r == t[Len(t)]
         IN  IF r.n >= k THEN <<Run(r.c, k)>>
             ELSE Append(TLast(SubSeq(t, 1, Len(t) - 1), k - r.n), r)

RECURSIVE LStrip(_)
LStrip(t) ==
    IF t # <<>> /\ Head(t).c \in Whitespace THEN LStrip(Tail(t)) ELSE t

RECURSIVE RStrip(_)
RStrip(t) ==
    IF t # <<>> /\ t[Len(t)].c \in Whitespace
    THEN RStrip(SubSeq(t, 1, Len(t) - 1)) ELSE t

\* t.strip()
TStrip(t) == LStrip(RStrip(t))

\* re.sub(r"[ \t]+", " ", t)
RECURSIVE CollapseBlanks(_)
CollapseBlanks(t) ==
    IF t = <<>> THEN <<>>
    ELSE IF Head(t).c \in {" ", "\t"}
    THEN LET rest == CollapseBlanks(Tail(t))
         IN  IF rest # <<>> /\ Head(rest).c = " " THEN rest
             ELSE <<Run(" ", 1)>> \o rest
    ELSE <<Head(t)>> \o CollapseBlanks(Tail(t))

\* sep.join(texts)
RECURSIVE JoinTexts(_, _)
JoinTexts(sep, texts) ==
    IF texts = <<>> THEN <<>>
    ELSE IF Len(texts) = 1 THEN texts[1]
    ELSE TCat(TCat(texts[1], sep), JoinTexts(sep, Tail(texts)))

\* re.split(r"(?<=[.!?])\s+", t): t is cut at every stretch of whitespace
\* that follows a stop; i is the next run, cur the piece being read.
RECURSIVE SplitLoop(_, _, _, _)
SplitLoop(t, i, cur, out) ==
    IF i > Len(t) THEN Append(out, cur)
    ELSE IF /\ t[i].c \in Whitespace
            /\ cur # <<>> /\ cur[Len(cur)].c \in Stops
    THEN LET rest == {j \in i..Len(t) : t[j].c \notin Whitespace}
             next == IF rest = {} THEN Len(t) + 1
                     ELSE CHOOSE j \in rest : \A m \in rest : j <= m
         IN  SplitLoop(t, next, <<>>, Append(out, cur))
    ELSE SplitLoop(t, i + 1, Append(cur, t[i]), out)

SplitSentences(t) == SplitLoop(t, 1, <<>>, <<>>)

\* ------------------------------------------------------------------------
\* ollama.py: pdfs_to_text_chunks, build_vector_store
\* ------------------------------------------------------------------------
\* The contents of the files a user may upload.
Blobs == {"notes", "syllabus", "scan", "broken", "memo"}

\* PdfReader(f) and page.extract_text(): the text of every page, or an
\* exception for a file that is no PDF.  A scanned page has no text.
PdfReader(blob) ==
    CASE blob = "notes" ->
             [raised |-> FALSE,
              pages |-> <<(<<Run("a", 499), Run(".", 1), Run(" ", 1),
                             Run("b", 449), Run(".", 1)>>)>>]
      [] blob = "syllabus" ->
             [raised |-> FALSE,
              pages |-> <<(<<Run(" ", 2), Run("c", 10), Run(" ", 3),
                             Run("d", 14), Run(".", 1), Run(" ", 1)>>),
                          <<>> >>]
      [] blob = "memo" ->
             [raised |-> FALSE, pages |-> <<(<<Run("e", 2), Run(".", 1)>>)>>]
      [] blob = "scan" ->
             [raised |-> FALSE, pages |-> << <<>>, <<>> >>]
      [] blob = "broken" ->
             [raised |-> TRUE, pages |-> <<>>]

\* A reader that makes up a text for a file it cannot read
DocText_ReadsBroken(blob) ==
    LET reader == PdfReader(blob)
        pages == [p \in 1..Len(reader.pages) |->
                     TStrip(CollapseBlanks(reader.pages[p]))]
    IN  IF reader.raised THEN <<Run("x", 30), Run(".", 1)>>
        ELSE TStrip(JoinTexts(<<Run("\n", 1)>>, pages))

\* The text of one file: its pages, blanks collapsed and stripped, joined
\* by newlines and stripped; no text for a file that cannot be read.
DocText(blob) ==
    LET reader == PdfReader(blob)
        pages == [p \in 1..Len(reader.pages) |->
                     TStrip(CollapseBlanks(reader.pages[p]))]
    IN  IF reader.raised THEN <<>>
        ELSE TStrip(JoinTexts(<<Run("\n", 1)>>, pages))

\* The loop over the sentences
RECURSIVE ChunkLoop(_, _, _, _, _, _)
ChunkLoop(sentences, i, chunk_size, overlap, chunks, buf) ==
    IF i > Len(sentences)
    THEN IF buf # <<>> THEN Append(chunks, TStrip(buf)) ELSE chunks
    ELSE LET s == sentences[i]
         IN  IF TLen(buf) + TLen(s) + 1 <= chunk_size
             THEN ChunkLoop(sentences, i + 1, chunk_size, overlap, chunks,
                      TCat(IF buf # <<>> THEN TCat(buf, <<Run(" ", 1)>>)
                           ELSE buf, s))
             ELSE LET tail == IF buf # <<>> THEN TLast(buf, overlap)
                              ELSE <<>>
                  IN  ChunkLoop(sentences, i + 1, chunk_size, overlap,
                          IF buf # <<>> THEN Append(chunks, TStrip(buf))
                          ELSE chunks,
                          TStrip(TCat(TCat(tail, <<Run(" ", 1)>>), s)))

\* c and len(c) > 20
KeepChunk(c) == c # <<>> /\ TLen(c) > 20

pdfs_to_text_chunks(files, chunk_size, overlap) ==
    LET docs == [f \in 1..Len(files) |-> DocText(files[f])]
        texts == SelectSeq(docs, LAMBDA d : d # <<>>)
    IN  IF texts = <<>> THEN <<>>
        ELSE LET full_text == JoinTexts(<<Run("\n", 2)>>, texts)
                 chunks == ChunkLoop(SplitSentences(full_text), 1,
                                     chunk_size, overlap, <<>>, <<>>)
                 kept == SelectSeq(chunks, KeepChunk)
             IN  [c \in 1..Len(kept) |-> TStrip(kept[c])]

\* The st.warning calls of pdfs_to_text_chunks: one for every file whose
\* reading raises, in the order of the files
PdfWarnings(files) == SelectSeq(files, LAMBDA f : PdfReader(f).raised)

\* build_vector_store: the vectorizer fitted on the chunks and their
\* matrix, or (None, None) when TfidfVectorizer raises (it does when no
\* term survives its max_df / stop-word pruning).
build_vector_store(chunks) ==
    IF chunks = <<>> THEN {<<NoVec, NoMat>>}
    ELSE {<<[fitted |-> TRUE, docs |-> chunks],
            [fitted |-> TRUE, rows |-> Len(chunks)]>>,
          <<NoVec, NoMat>>}

\* ------------------------------------------------------------------------
\* ollama.py and teacher_functions.py: the tables of the uploaded files
\* ------------------------------------------------------------------------
\* An uploaded file: its name and its content
FileNamed(blob) ==
    [name |-> CASE blob = "notes" -> "notes.pdf"
                [] blob = "syllabus" -> "syllabus.pdf"
                [] blob = "scan" -> "scan.pdf"
                [] blob = "broken" -> "broken.pdf"
                [] blob = "memo" -> "memo.pdf",
     content |-> blob]

\* for file in files: save_upload(user_id, file.name, file) at time t
save_upload(table, user_id, files, t) ==
    table \o [i \in 1..Len(files) |->
                 [user_id |-> user_id, filename |-> files[i].name,
                  content |-> files[i].content, upload_date |-> t]]

\* for file in files: save_teacher_material(user_id, subject, topic,
\* file.name, file) at time t
save_teacher_material(table, user_id, subject, tpc, files, t) ==
    table \o [i \in 1..Len(files) |->
                 [user_id |-> user_id, subject |-> subject, topic |-> tpc,
                  filename |-> files[i].name, content |-> files[i].content,
                  upload_date |-> t]]

\* SELECT ... WHERE user_id=? ORDER BY upload_date DESC: the rows of the
\* user, newest first; rows of the same second come in any order.  The
\* result is the set of the possible orders, each a sequence of positions
\* in the table.
NewestFirst(table, user_id) ==
    LET mine == {i \in 1..Len(table) : table[i].user_id = user_id}
        n == Cardinality(mine)
    IN  {f \in [1..n -> mine] :
            /\ \A a, b \in 1..n : f[a] = f[b] => a = b
            /\ \A a, b \in 1..n :
                   a < b => table[f[a]].upload_date >= table[f[b]].upload_date}

\* get_uploads: (filename, content) of every row
get_uploads(table, user_id) ==
    {[k \in 1..Len(f) |-> <<table[f[k]].filename, table[f[k]].content>>] :
         f \in NewestFirst(table, user_id)}

\* get_teacher_materials without a subject:
\* (filename, content, topic, subject) of every row
get_teacher_materials(table, user_id) ==
    {[k \in 1..Len(f) |-> <<table[f[k]].filename, table[f[k]].content,
                            table[f[k]].topic, table[f[k]].subject>>] :
         f \in NewestFirst(table, user_id)}

\* get_chat_history: (prompt, response) of the newest rows of the user,
\* newest first, at most limit of them
get_chat_history(table, user_id, limit) ==
    LET mine == SelectSeq(table, LAMBDA row : row.user_id = user_id)
        n == IF Len(mine) < limit THEN Len(mine) ELSE limit
    IN  [k \in 1..n |-> <<mine[Len(mine) + 1 - k].prompt,
                          mine[Len(mine) + 1 - k].response>>]

\* A DELETE without its WHERE clause.
DeleteOf_All(table, user_id) == <<>>

\* clear_user_data: DELETE ... WHERE user_id=?
DeleteOf(table, user_id) ==
    SelectSeq(table, LAMBDA row : row.user_id # user_id)

\* save_chat
save_chat(table, user_id, prompt, response) ==
    Append(table, [user_id |-> user_id, prompt |-> prompt,
                   response |-> response])

\* ------------------------------------------------------------------------
\* The portal pages: upload, Build Knowledge Base, Ask
\* ------------------------------------------------------------------------
PortalScripts ==
    {"ollama.py", "pages/Students.py", "pages/Teacher.py", "teacher_page.py"}

\* The scripts with the student chat
ChatScripts == {"ollama.py", "pages/Students.py"}

\* The keys of the knowledge base a script works on
KbKey(script) == IF script \in ChatScripts THEN "student" ELSE "teacher"

\* chunk_size and overlap a script passes to pdfs_to_text_chunks
ChunkParams(script) ==
    IF script = "teacher_page.py" THEN <<1000, 200>> ELSE <<900, 150>>

\* teacher_page.py: the selectbox "Subject" at its first option
Subject == "Mathematics"

\* The upload handler, which every run of a portal page passes: the files
\* the uploader holds are stored; teacher_page.py stores them as materials
\* and needs a topic.
UploadStep(script, user_id, files, tpc, t) ==
    IF script = "teacher_page.py"
    THEN IF files # <<>> /\ Subject # "" /\ tpc # ""
         THEN [uploads |-> uploads,
               teacher_materials |->
                   save_teacher_material(teacher_materials, user_id,
                                         Subject, tpc, files, t),
               log |-> [i \in 1..Len(files) |-> "save_teacher_material"]]
         ELSE [uploads |-> uploads, teacher_materials |-> teacher_materials,
               log |-> <<>>]
    ELSE IF files # <<>>
         THEN [uploads |-> save_upload(uploads, user_id, files, t),
               teacher_materials |-> teacher_materials,
               log |-> [i \in 1..Len(files) |-> "save_upload"]]
         ELSE [uploads |-> uploads, teacher_materials |-> teacher_materials,
               log |-> <<>>]

\* The contents of the stored files a Build click reads, in the order of
\* get_uploads / get_teacher_materials: the set of the possible lists.
StoredFiles(script, up, user_id) ==
    IF script = "teacher_page.py"
    THEN {[k \in 1..Len(rows) |-> rows[k][2]] :
              rows \in get_teacher_materials(up.teacher_materials, user_id)}
    ELSE {[k \in 1..Len(rows) |-> rows[k][2]] :
              rows \in get_uploads(up.uploads, user_id)}

\* A build that empties the knowledge base when it finds no text.
BuildOutcome_ClearsOnEmpty(kb, chunks, vm) ==
    IF chunks # <<>>
    THEN [chunks |-> chunks, vec |-> vm[1], mat |-> vm[2]]
    ELSE EmptyKB

\* The three keys after a build that has read the files: replaced when
\* there are chunks, left alone when there are none.
BuildOutcome(kb, chunks, vm) ==
    IF chunks # <<>>
    THEN [chunks |-> chunks, vec |-> vm[1], mat |-> vm[2]]
    ELSE kb

\* Cosine similarities in hundredths; retrieve keeps what is above 0.01.
SimLevels == {0, 1, 40}
SimThreshold == 1

\* A retrieve that also keeps the chunks whose similarity is 0.01
retrieve_AtThreshold(query, vectorizer, matrix, chunks, k, sims, idxs) ==
    IF ~vectorizer.fitted \/ ~matrix.fitted \/ query = "" THEN <<>>
    ELSE LET top == SubSeq(idxs, 1, IF Len(idxs) < k THEN Len(idxs) ELSE k)
             kept == SelectSeq(top, LAMBDA i : sims[i] >= SimThreshold)
         IN  IF \E j \in 1..Len(kept) : kept[j] > Len(chunks) THEN <<>>
             ELSE [j \in 1..Len(kept) |-> <<chunks[kept[j]], sims[kept[j]]>>]

\* retrieve for one outcome of the similarity computation: sims[i] is the
\* similarity of row i of the matrix, idxs the order sims.argsort()[::-1]
\* puts the rows in.  chunks[i] for a row that has no chunk raises
\* IndexError, which the except clause turns into [].
retrieve(query, vectorizer, matrix, chunks, k, sims, idxs) ==
    IF ~vectorizer.fitted \/ ~matrix.fitted \/ query = "" THEN <<>>
    ELSE LET top == SubSeq(idxs, 1, IF Len(idxs) < k THEN Len(idxs) ELSE k)
             kept == SelectSeq(top, LAMBDA i : sims[i] > SimThreshold)
         IN  IF \E j \in 1..Len(kept) : kept[j] > Len(chunks) THEN <<>>
             ELSE [j \in 1..Len(kept) |-> <<chunks[kept[j]], sims[kept[j]]>>]

\* Outcomes of the similarity computation for n chunks: every chunk with
\* the same score, or the first chunk alone above the threshold; argsort
\* leaves equal scores in index order, which [::-1] reverses.
Similarities(n) ==
    {<<[i \in 1..n |-> lv], [i \in 1..n |-> n + 1 - i]>> : lv \in SimLevels}
    \cup {<<[i \in 1..n |-> IF i = 1 THEN 40 ELSE 0],
            [i \in 1..n |-> IF i = 1 THEN 1 ELSE n + 2 - i]>>}

\* rag_answer, the loop over chunks_scored: the chunks that go into the
\* context, as long as they fit in max_context_length
MaxContextLength == 8000

RECURSIVE ContextParts(_, _, _, _)
ContextParts(chunks_scored, i, total_length, context_parts) ==
    IF i > Len(chunks_scored) THEN context_parts
    ELSE LET chunk == chunks_scored[i][1]
         IN  IF total_length + TLen(chunk) <= MaxContextLength
             THEN ContextParts(chunks_scored, i + 1,
                               total_length + TLen(chunk),
                               Append(context_parts, chunk))
             ELSE context_parts

NothingFoundMsg ==
    Str("I couldn't find relevant information in the uploaded PDFs to answer your question.")

\* rag_answer: what it calls and what it returns (or lets through)
rag_answer(query, chunks_scored, server, model) ==
    IF chunks_scored = <<>>
    THEN [log |-> <<"rag_answer">>, context |-> <<>>,
          out |-> Returned(NothingFoundMsg)]
    ELSE [log |-> <<"rag_answer", "call_local_llm_chat">>,
          context |-> ContextParts(chunks_scored, 1, 0, <<>>),
          out |-> call_local_llm_chat(server, model)]

\* A chat form that does not look at the knowledge base.
AskAdmitted_NoKbCheck(script, q, kb) ==
    IF script = "pages/Students.py" THEN Strip(q) # "" ELSE q # ""

\* The chat form passes a question on when it is not empty (pages/
\* Students.py: not blank) and the session has a vectorizer.
AskAdmitted(script, q, kb) ==
    /\ IF script = "pages/Students.py" THEN Strip(q) # "" ELSE q # ""
    /\ kb.vec.fitted

\* The chat handler for a submitted question: what it calls, and the
\* chat_history table afterwards.  An exception ends the run.
AskHandler(script, q, kb, user_id, server, model, sim) ==
    IF ~AskAdmitted(script, q, kb)
    THEN [log |-> <<"chat_form">> \o
                  (IF q = "" /\ script = "ollama.py" THEN <<>>
                   ELSE <<"st.warning">>),
          chat_history |-> chat_history]
    ELSE LET chunks_scored == retrieve(q, kb.vec, kb.mat, kb.chunks, 6,
                                       sim[1], sim[2])
             answer == rag_answer(q, chunks_scored, server, model)
         IN  IF answer.out.raised
             THEN [log |-> <<"chat_form", "retrieve">> \o answer.log,
                   chat_history |-> chat_history]
             ELSE [log |-> <<"chat_form", "retrieve">> \o answer.log
                               \o <<"save_chat">>,
                   chat_history |-> save_chat(chat_history, user_id, q,
                                              answer.out.value)]

\* ------------------------------------------------------------------------
\* teacher_functions.py: generate_advanced_questions
\* ------------------------------------------------------------------------
\* [A-Z] and [A-Za-z0-9 ] over the characters the texts are written with
Capitals == {"A"}
WordChars == {"A", "a", "b", " "}

\* t[:k]
RECURSIVE TFirst(_, _)
TFirst(t, k) ==
    IF t = <<>> \/ k <= 0 THEN <<>>
    ELSE IF Head(t).n >= k THEN <<Run(Head(t).c, k)>>
    ELSE <<Head(t)>> \o TFirst(Tail(t), k - Head(t).n)

\* re.findall(r"[A-Z][A-Za-z0-9 ]{10,80}[.!?]", t) from run i on: a match
\* starts at a capital that has 10 to 80 word characters between itself and
\* a stop, and the search goes on behind the stop.
RECURSIVE FindTopics(_, _, _)
FindTopics(t, i, out) ==
    IF i > Len(t) THEN out
    ELSE IF t[i].c \notin Capitals THEN FindTopics(t, i + 1, out)
    ELSE LET ends == {j \in (i + 1)..Len(t) : t[j].c \notin WordChars}
             e == IF ends = {} THEN Len(t) + 1
                  ELSE CHOOSE j \in ends : \A m \in ends : j <= m
             after == TLen(SubSeq(t, i + 1, e - 1))
             n == t[i].n
             lo == IF n + after - 80 > 1 THEN n + after - 80 ELSE 1
             hi == IF n + after - 10 < n THEN n + after - 10 ELSE n
         IN  IF e <= Len(t) /\ t[e].c \in Stops /\ lo <= hi
             THEN FindTopics(t, e + 1,
                      Append(out, <<Run(t[i].c, n - lo + 1)>>
                                      \o SubSeq(t, i + 1, e - 1)
                                      \o <<Run(t[e].c, 1)>>))
             ELSE FindTopics(t, i + 1, out)

\* t.split("."): the pieces between the dots, from run i on
RECURSIVE SplitDots(_, _, _, _)
SplitDots(t, i, cur, out) ==
    IF i > Len(t) THEN Append(out, cur)
    ELSE IF t[i].c = "."
    THEN SplitDots(t, i + 1, <<>>,
                   Append(out, cur) \o [k \in 1..(t[i].n - 1) |-> <<>>])
    ELSE SplitDots(t, i + 1, Append(cur, t[i]), out)

\* The question types used when the caller names none
DefaultQuestionTypes ==
    <<"MCQ", "Short Answer", "Long Answer", "Fill in the blanks">>

\* How many characters of the topic a fallback question of a type quotes
TopicQuote(q_type) ==
    CASE q_type = "MCQ" -> 30
      [] q_type = "Short Answer" -> 50
      [] OTHER -> 40

\* The fallback questions made from the context
FallbackQuestions(context, num_q, question_types) ==
    LET found == FindTopics(context, 1, <<>>)
        pieces == SplitDots(context, 1, <<>>, <<>>)
        topics == IF found # <<>> THEN found
                  ELSE SubSeq(pieces, 1, Len(pieces) - 1)
        count == IF num_q < Len(topics) THEN num_q ELSE Len(topics)
    IN  [i \in 1..count |->
            LET tpc == TStrip(topics[((i - 1) % Len(topics)) + 1])
                q_type == question_types[(i % Len(question_types)) + 1]
            IN  [number |-> i, type |-> q_type,
                 topic |-> TFirst(tpc, TopicQuote(q_type))]]

\* generate_advanced_questions: whether it warned "using fallback", and the
\* text it returned as its parts.
generate_advanced_questions(title, num_q, chunks_scored, server, model, style, difficulty, question_types) ==
    IF chunks_scored = <<>>
    THEN [warned |-> FALSE, kind |-> "no content", title |-> title,
          body |-> Str("Could not generate questions - no relevant content found."),
          questions |-> <<>>]
    ELSE LET context == JoinTexts(<<Run("\n", 2)>>,
                            ContextParts(chunks_scored, 1, 0, <<>>))
             types == IF question_types = <<>> THEN DefaultQuestionTypes
                      ELSE question_types
             paper == call_local_llm_chat(server, model).value
         IN  IF paper # <<>>
             THEN [warned |-> FALSE, kind |-> "paper", title |-> title,
                   body |-> paper, questions |-> <<>>]
             ELSE [warned |-> TRUE, kind |-> "fallback", title |-> title,
                   body |-> <<>>,
                   questions |-> FallbackQuestions(context, num_q, types)]

\* ------------------------------------------------------------------------
\* main.py: migrate_database
\* ------------------------------------------------------------------------
\* The columns every users table has had, and the ones migrate_database adds
BaseColumns == {"id", "username", "password_hash"}
MigratedColumns ==
    <<"is_active", "role", "full_name", "email", "created_at", "last_login">>
AllColumns == BaseColumns \cup {MigratedColumns[i] : i \in 1..6}

\* The value a column holds in the rows that exist when ALTER TABLE adds it
ColumnDefault(column) ==
    CASE column = "is_active" -> 1
      [] column = "role" -> "student"
      [] column \in {"created_at", "last_login"} -> NoTime
      [] OTHER -> NULL

\* ALTER TABLE users ADD COLUMN, statement i of migrate_database, on a table
\* with these columns and rows.  A column with the default CURRENT_TIMESTAMP
\* cannot be added to a table that has rows ("Cannot add a column with
\* non-constant default"); SQLite builds differ on a table without rows.
RECURSIVE AlterLoop(_, _, _)
AlterLoop(columns, rows, i) ==
    IF i > Len(MigratedColumns)
    THEN {[raised |-> FALSE, columns |-> columns, rows |-> rows]}
    ELSE LET column == MigratedColumns[i]
             added == [k \in 1..Len(rows) |->
                          [c \in columns \cup {column} |->
                              IF c = column THEN ColumnDefault(c)
                              ELSE rows[k][c]]]
             refused == {[raised |-> TRUE, columns |-> columns,
                          rows |-> rows]}
         IN  IF column \in columns THEN AlterLoop(columns, rows, i + 1)
             ELSE IF column # "created_at"
             THEN AlterLoop(columns \cup {column}, added, i + 1)
             ELSE IF rows # <<>> THEN refused
             ELSE refused \cup AlterLoop(columns \cup {column}, added, i + 1)

\* migrate_database: the outcomes it can have on a users table with these
\* columns and rows; without the table create_main_tables makes it.
migrate_database(columns, rows) ==
    IF columns = {}
    THEN {[raised |-> FALSE, columns |-> AllColumns, rows |-> <<>>]}
    ELSE AlterLoop(columns, rows, 1)

\* ------------------------------------------------------------------------
\* ollama.py: test_ollama_connection
\* ------------------------------------------------------------------------
\* The JSON list of the models with these names
JModels(names) == [t |-> "list", s |-> names, f |-> <<>>]

\* An invocation that asks again when the server has not answered.
TagsRequests_Retry(base_url, server) ==
    IF server.kind = "response"
    THEN <<[method |-> "GET", url |-> <<RStripSlash(base_url), "/api/tags">>]>>
    ELSE <<[method |-> "GET", url |-> <<RStripSlash(base_url), "/api/tags">>],
           [method |-> "GET", url |-> <<RStripSlash(base_url), "/api/tags">>]>>

\* The requests one invocation of test_ollama_connection sends
TagsRequests(base_url, server) ==
    <<[method |-> "GET", url |-> <<RStripSlash(base_url), "/api/tags">>]>>

\* test_ollama_connection: (is_connected, kind of the message, its detail)
test_ollama_connection(server) ==
    LET get == PostOutcome(server)
        data == server.json
        models == DictGet(data, "models", JModels(<<>>))
    IN  IF get.raised
        THEN IF IsConnectionError(get)
             THEN <<FALSE, "Cannot connect to Ollama server.", <<>>>>
             ELSE <<FALSE, "Connection error: ", get.text>>
        ELSE IF data.t = "invalid"
        THEN <<FALSE, "Connection error: ", Str("Expecting value")>>
        ELSE IF data.t # "obj"
        THEN <<FALSE, "Connection error: ", Str("no attribute 'get'")>>
        ELSE IF models.s = <<>>
        THEN <<TRUE, "Connected! No models found.", <<>>>>
        ELSE IF models.t # "list"
        THEN <<FALSE, "Connection error: ", Str("no attribute 'get'")>>
        ELSE <<TRUE, "Connected! Available models: ", models.s>>

\* The answers of the server to GET /api/tags
TagsAnswers ==
    {a \in ServerAnswers : a.kind # "response" \/ a.status >= 400}
    \cup {[kind |-> "response", status |-> 200, text |-> Str("json"),
           json |-> j] :
              j \in {NotJson, JNull, JObj(<<>>), JObj([models |-> JNull]),
                     JObj([models |-> JStr(Str("llama3.2"))]),
                     JObj([models |-> JModels(<<>>)]),
                     JObj([models |-> JModels(<<"llama3.2">>)])}}

\* ------------------------------------------------------------------------
\* The parts of the state a specification leaves alone
\* ------------------------------------------------------------------------
AcctIdle ==
    /\ now = 0 /\ users = <<>> /\ registered = {}
    /\ app = "main.py" /\ session = FreshSession

TeachIdle == timetables = <<>> /\ teacher_materials = <<>>

ChatIdle ==
    /\ uploader = <<>> /\ topic = "" /\ uploads = <<>>
    /\ chat_history = <<>> /\ runLog = <<>>

FnIdle == callArgs = <<>> /\ callRet = <<>>

\* The users table of an installation that is up to date
ColumnsIdle == usersColumns = AllColumns

ExtraIdle ==
    FnIdle /\ ColumnsIdle /\ question_papers = <<>> /\ conns = <<>>

TtIdle ==
    /\ ttFaculty = <<>> /\ ttSlots = <<>> /\ ttCourses = <<>> /\ ttMax = 1
    /\ ttOut = [status |-> "form", rows |-> <<>>]

LlmIdle ==
    /\ llmServer = [kind |-> "refused", status |-> 0, text |-> <<>>,
                    json |-> NotJson]
    /\ llmModel = Str("llama3.2")
    /\ llmBaseUrl = "http://localhost:11434"
    /\ llmRequests = <<>>
    /\ llmRet = [called |-> FALSE, raised |-> FALSE, value |-> <<>>]

\* ------------------------------------------------------------------------
\* Specification of the timetable generators
\* ------------------------------------------------------------------------
MaxHoursChoices == {1, 2, MaxHoursLimit}

InitTT ==
    /\ ttFaculty \in SeqsUpTo(FacLineChoices, MaxFacLines)
    /\ \E n \in 0..MaxSlotLines : ttSlots = SubSeq(SlotText, 1, n)
    /\ ttCourses \in SeqsUpTo(CourseLineChoices, MaxCourseLines)
    /\ ttMax \in MaxHoursChoices
    /\ ttOut = [status |-> "form", rows |-> <<>>]
    /\ LlmIdle /\ AcctIdle /\ TeachIdle /\ ChatIdle
    /\ ExtraIdle

\* pages/Teacher.py: click on "Build schedule"
BuildScheduleClick ==
    /\ ttOut.status = "form"
    /\ ttOut' = BuildSchedule(ttFaculty, ttSlots, ttCourses)
    /\ UNCHANGED <<ttFaculty, ttSlots, ttCourses, ttMax, llmVars>>
    /\ UNCHANGED <<acctVars, teachVars, chatVars>>
    /\ UNCHANGED extraVars

\* teacher_page.py: click on "Generate Timetable"
GenerateTimetableClick ==
    /\ ttOut.status = "form"
    /\ ttOut' = SmartTimetable(ttFaculty, ttSlots, ttCourses, ttMax)
    /\ UNCHANGED <<ttFaculty, ttSlots, ttCourses, ttMax, llmVars>>
    /\ UNCHANGED <<acctVars, teachVars, chatVars>>
    /\ UNCHANGED extraVars

NextTT ==
    \/ BuildScheduleClick
    \/ GenerateTimetableClick

\* ------------------------------------------------------------------------
\* Specification of the calls to the local LLM
\* ------------------------------------------------------------------------
InitLLM ==
    /\ llmServer \in ServerAnswers
    /\ llmModel \in ModelChoices
    /\ llmBaseUrl \in BaseUrlChoices
    /\ llmRequests = <<>>
    /\ llmRet = [called |-> FALSE, raised |-> FALSE, value |-> <<>>]
    /\ TtIdle /\ AcctIdle /\ TeachIdle /\ ChatIdle
    /\ ExtraIdle

CallLocalLlmChat ==
    /\ ~llmRet.called
    /\ LET r == call_local_llm_chat(llmServer, llmModel)
       IN  llmRet' = [called |-> TRUE, raised |-> r.raised,
                      value |-> IF r.raised THEN <<>> ELSE r.value]
    /\ llmRequests' = Append(llmRequests, ChatRequest(llmBaseUrl))
    /\ UNCHANGED <<llmServer, llmModel, llmBaseUrl, ttVars>>
    /\ UNCHANGED <<acctVars, teachVars, chatVars>>
    /\ UNCHANGED extraVars

\* The sidebar of every portal page tests the connection.
TestOllamaConnection(server) ==
    /\ callArgs = <<>>
    /\ callArgs' = [base_url |-> llmBaseUrl, server |-> server]
    /\ callRet' = test_ollama_connection(server)
    /\ llmRequests' = llmRequests \o TagsRequests(llmBaseUrl, server)
    /\ UNCHANGED <<llmServer, llmModel, llmBaseUrl, llmRet, ttVars>>
    /\ UNCHANGED <<acctVars, teachVars, chatVars>>
    /\ UNCHANGED <<usersColumns, question_papers, conns>>

NextLLM ==
    \/ CallLocalLlmChat
    \/ \E server \in TagsAnswers : TestOllamaConnection(server)

\* ------------------------------------------------------------------------
\* Specification of the accounts: sign-up, login, logout, and the teacher
\* portal's timetable tab
\* ------------------------------------------------------------------------
\* The timetables table holds at most MaxTimetables rows.
MaxTimetables == 1

InitAuth ==
    /\ now = 0
    /\ users \in {<<>>, <<RowWithoutRole>>}
    /\ registered = {}
    /\ app = "main.py"
    /\ session = FreshSession
    /\ TeachIdle /\ ChatIdle /\ TtIdle /\ LlmIdle
    /\ ExtraIdle

\* A second passes.
Tick ==
    /\ now < MaxClock
    /\ now' = now + 1
    /\ runLog' = <<>>
    /\ UNCHANGED <<users, registered, app, session>>
    /\ UNCHANGED <<teachVars, uploader, topic, uploads, chat_history>>
    /\ UNCHANGED <<ttVars, llmVars>>
    /\ UNCHANGED extraVars

\* The browser opens another script.  The pages of main.py keep the session
\* state; another server starts a session of its own.  The widgets of the
\* page that is left are gone.
Navigate(script) ==
    /\ script # app
    /\ app' = script
    /\ session' = IF app \in MainScripts /\ script \in MainScripts
                  THEN session ELSE FreshSession
    /\ uploader' = <<>> /\ topic' = "" /\ runLog' = <<>>
    /\ UNCHANGED <<now, users, registered, uploads, chat_history>>
    /\ UNCHANGED <<teachVars, ttVars, llmVars>>
    /\ UNCHANGED extraVars

\* main.py, signup_form: the message of the validation, "" when it passes
SignupError(f) ==
    IF \/ f.full_name = "" \/ f.new_username = ""
       \/ f.new_password = "" \/ f.confirm_password = ""
    THEN "Please fill in all required fields."
    ELSE IF f.new_password # f.confirm_password
    THEN "Passwords don't match!"
    ELSE IF PasswordLen(f.new_password) < 6
    THEN "Password must be at least 6 characters long."
    ELSE IF ~f.terms_agreed
    THEN "Please agree to the terms and conditions."
    ELSE ""

\* main.py, submit of signup_form
MainSignup(f) ==
    /\ app = "main.py" /\ ~session.authenticated
    /\ IF SignupError(f) # ""
       THEN UNCHANGED <<users, registered>>
       ELSE \E o \in main_register_user(users, f.new_username, f.email,
                         f.new_password, f.role, f.full_name) :
                /\ users' = o.users
                /\ registered' =
                       IF o.ret[1]
                       THEN registered \cup
                                {<<f.new_username, f.new_password>>}
                       ELSE registered
    /\ UNCHANGED <<now, app, session>>
    /\ runLog' = <<>>
    /\ UNCHANGED <<teachVars, uploader, topic, uploads, chat_history>>
    /\ UNCHANGED <<ttVars, llmVars>>
    /\ UNCHANGED extraVars

\* ollama.py register_user, which no form calls
OllamaRegister(username, password) ==
    /\ \E o \in ollama_register_user(users, username, password) :
           users' = o.users
    /\ runLog' = <<>>
    /\ UNCHANGED <<now, registered, app, session>>
    /\ UNCHANGED <<teachVars, uploader, topic, uploads, chat_history>>
    /\ UNCHANGED <<ttVars, llmVars>>
    /\ UNCHANGED extraVars

\* main.py, submit of login_form
MainLogin(username, password) ==
    /\ app = "main.py" /\ ~session.authenticated
    /\ IF username # "" /\ password # ""
       THEN LET r == main_authenticate_user(users, username, password, now)
            IN  /\ users' = r.users
                /\ session' =
                       IF r.ret[1]
                       THEN [session EXCEPT !.authenticated = TRUE,
                                            !.user_id = r.ret[2],
                                            !.username = username,
                                            !.role = r.ret[3],
                                            !.full_name = r.ret[4]]
                       ELSE session
       ELSE UNCHANGED <<users, session>>
    /\ UNCHANGED <<now, registered, app>>
    /\ runLog' = <<>>
    /\ UNCHANGED <<teachVars, uploader, topic, uploads, chat_history>>
    /\ UNCHANGED <<ttVars, llmVars>>
    /\ UNCHANGED extraVars

\* ollama.py "Login" and teacher_page.py "Login as Teacher"
PortalLogin(username, password) ==
    /\ app \in {"ollama.py", "teacher_page.py"}
    /\ session.user_id = NoId
    /\ IF username # "" /\ password # ""
       THEN LET r == ollama_authenticate_user(users, username, password)
            IN  session' = IF r[1]
                           THEN [session EXCEPT !.user_id = r[2],
                                                !.username = username]
                           ELSE session
       ELSE UNCHANGED session
    /\ UNCHANGED <<now, users, registered, app>>
    /\ runLog' = <<>>
    /\ UNCHANGED <<teachVars, uploader, topic, uploads, chat_history>>
    /\ UNCHANGED <<ttVars, llmVars>>
    /\ UNCHANGED extraVars

\* "Logout" of main.py, ollama.py and teacher_page.py: every key of the
\* session state is deleted and the script runs again from the top.
Logout ==
    /\ app \in {"main.py", "ollama.py", "teacher_page.py"}
    /\ PastGate
    /\ session' = FreshSession
    /\ uploader' = <<>> /\ topic' = "" /\ runLog' = <<>>
    /\ UNCHANGED <<now, users, registered, app, uploads, chat_history>>
    /\ UNCHANGED <<teachVars, ttVars, llmVars>>
    /\ UNCHANGED extraVars

\* The tables uploads and teacher_materials hold at most MaxStored rows
\* together, chat_history at most MaxChats.
MaxStored == 4
MaxChats == 2

\* A run of a portal page stores the files of the uploader: the tables of
\* the files and the log after the upload handler of this run.
RunUploads(up) ==
    /\ Len(up.uploads) + Len(up.teacher_materials) <= MaxStored
    /\ uploads' = up.uploads
    /\ teacher_materials' = up.teacher_materials

\* What is typed into the timetable form of teacher_page.py
TimetableForms ==
    [faculty_input : {<<" ">>, <<"A">>},
     slots_input : {<<"Mon 09:00-10:00">>},
     subjects_input : {<<"Math">>},
     max_hours : {1}]

\* teacher_page.py, "Generate Timetable": a schedule that is not empty is
\* saved at once.
TeacherGenerateTimetable(f) ==
    /\ app = "teacher_page.py" /\ PastGate
    /\ Len(timetables) < MaxTimetables
    /\ LET up == UploadStep(app, session.user_id, uploader, topic, now)
           r == SmartTimetable(f.faculty_input, f.slots_input,
                               f.subjects_input, f.max_hours)
       IN  /\ RunUploads(up)
           /\ timetables' =
                  IF r.status = "smart"
                  THEN save_timetable(timetables, session.user_id,
                                      "Weekly Schedule", json_dumps(r.rows))
                  ELSE timetables
           /\ runLog' = up.log \o (IF r.status = "smart"
                                   THEN <<"save_timetable">> ELSE <<>>)
    /\ UNCHANGED <<acctVars, uploader, topic, chat_history, ttVars, llmVars>>
    /\ UNCHANGED extraVars

SignupForms ==
    {f \in [role : RoleChoices, full_name : FullNameChoices,
            email : EmailChoices, new_username : Usernames \cup {""},
            new_password : Passwords, confirm_password : Passwords,
            terms_agreed : BOOLEAN] :
        f.confirm_password \in {f.new_password, "abc"}}

NextAuth ==
    \/ Tick
    \/ \E script \in Scripts : Navigate(script)
    \/ \E f \in SignupForms : MainSignup(f)
    \/ \E u \in Usernames : OllamaRegister(u, "secret1")
    \/ \E u \in Usernames \cup {""}, p \in Passwords : MainLogin(u, p)
    \/ \E u \in Usernames \cup {""}, p \in Passwords : PortalLogin(u, p)
    \/ Logout
    \/ \E f \in TimetableForms : TeacherGenerateTimetable(f)

\* ------------------------------------------------------------------------
\* Specification of the portal pages: upload, Build Knowledge Base, Ask
\* ------------------------------------------------------------------------
\* The accounts of this specification, as main.register_user stores them:
\* ann, a teacher, and bob, a student.
ChatUsers ==
    <<[id |-> 1, username |-> "ann", email |-> DefaultEmail("ann"),
       password_hash |-> hash_password("secret1"), role |-> "teacher",
       full_name |-> "Ann Lee", last_login |-> NoTime],
      [id |-> 2, username |-> "bob", email |-> DefaultEmail("bob"),
       password_hash |-> hash_password("secret1"), role |-> "student",
       full_name |-> "Bob Ray", last_login |-> NoTime]>>

\* bob signs in and works; ann has stored a file in each table and asked a
\* question before.
InitChat ==
    /\ now = 0
    /\ users = ChatUsers
    /\ registered = {}
    /\ app = "main.py"
    /\ session = FreshSession
    /\ timetables = <<>>
    /\ teacher_materials =
           save_teacher_material(<<>>, 1, Subject, "Algebra",
                                 <<FileNamed("syllabus")>>, 0)
    /\ uploads = save_upload(<<>>, 1, <<FileNamed("syllabus")>>, 0)
    /\ uploader = <<>> /\ topic = ""
    /\ chat_history = save_chat(<<>>, 1, "What is a?", NothingFoundMsg)
    /\ runLog = <<>>
    /\ TtIdle /\ LlmIdle
    /\ ExtraIdle

\* The files a user puts into the uploader, and the topics typed
FileSelections ==
    {<<>>, <<FileNamed("notes")>>,
     <<FileNamed("scan"), FileNamed("broken")>>}
TopicChoices == {"", "Algebra"}

\* A widget of a portal page is changed, or a button without a handler of
\* its own is pressed: the script runs with the uploader holding files and
\* the topic being tpc.
Rerun(files, tpc) ==
    /\ app \in PortalScripts /\ PastGate
    /\ app = "teacher_page.py" \/ tpc = topic
    /\ uploader' = files /\ topic' = tpc
    /\ LET up == UploadStep(app, session.user_id, files, tpc, now)
       IN  RunUploads(up) /\ runLog' = up.log
    /\ UNCHANGED <<acctVars, timetables, chat_history, ttVars, llmVars>>
    /\ UNCHANGED extraVars

\* "Build Knowledge Base" / "Build Teacher Knowledge Base" / "Build
\* Teacher KB"
BuildClick ==
    /\ app \in PortalScripts /\ PastGate
    /\ LET up == UploadStep(app, session.user_id, uploader, topic, now)
       IN  /\ RunUploads(up)
           /\ \E files \in StoredFiles(app, up, session.user_id) :
                  IF files = <<>>
                  THEN /\ session' = session
                       /\ runLog' = up.log \o <<"st.warning">>
                  ELSE LET chunks ==
                               pdfs_to_text_chunks(files,
                                   ChunkParams(app)[1], ChunkParams(app)[2])
                       IN  \E vm \in build_vector_store(chunks) :
                               /\ session' =
                                      [session EXCEPT ![KbKey(app)] =
                                          BuildOutcome(@, chunks, vm)]
                               /\ runLog' = up.log
                                      \o <<"pdfs_to_text_chunks">>
                                      \o (IF chunks # <<>>
                                          THEN <<"build_vector_store">>
                                          ELSE <<"st.error">>)
    /\ UNCHANGED <<now, users, registered, app>>
    /\ UNCHANGED <<timetables, uploader, topic, chat_history>>
    /\ UNCHANGED <<ttVars, llmVars>>
    /\ UNCHANGED extraVars

\* The questions typed into the chat form; the server answers them.
Questions == {"", " ", "What is a?"}
ChatServerAnswers ==
    {a \in ServerAnswers :
        a.json = JObj([message |-> JObj([content |-> JStr(Str("An answer."))])])}

\* ollama.py and pages/Students.py, submit of chat_form
AskClick(q, server) ==
    /\ app \in ChatScripts /\ PastGate
    /\ Len(chat_history) < MaxChats
    /\ LET up == UploadStep(app, session.user_id, uploader, topic, now)
           kb == session[KbKey(app)]
       IN  /\ RunUploads(up)
           /\ \E r \in {AskHandler(app, q, kb, session.user_id, server,
                                    Str("llama3.2"), sim) :
                             sim \in Similarities(Len(kb.chunks))} :
                  /\ chat_history' = r.chat_history
                  /\ runLog' = up.log \o r.log
    /\ UNCHANGED <<acctVars, timetables, uploader, topic, ttVars, llmVars>>
    /\ UNCHANGED extraVars

\* ollama.py clear_user_data, which no form calls
ClearUserData(user_id) ==
    /\ chat_history' = DeleteOf(chat_history, user_id)
    /\ uploads' = DeleteOf(uploads, user_id)
    /\ runLog' = <<>>
    /\ UNCHANGED <<acctVars, teachVars, uploader, topic>>
    /\ UNCHANGED <<ttVars, llmVars>>
    /\ UNCHANGED extraVars

\* The logins tried in this specification
ChatLogins == {<<"bob", "secret1">>, <<"bob", "abc">>}

NextChat ==
    \/ \E script \in Scripts \ {"pages/Teacher.py"} : Navigate(script)
    \/ \E c \in ChatLogins : MainLogin(c[1], c[2])
    \/ \E c \in ChatLogins : PortalLogin(c[1], c[2])
    \/ Logout
    \/ \E files \in FileSelections, tpc \in TopicChoices : Rerun(files, tpc)
    \/ BuildClick
    \/ \E q \in Questions, server \in ChatServerAnswers : AskClick(q, server)
    \/ ClearUserData(ChatUsers[2].id)

\* ------------------------------------------------------------------------
\* Specification of the question paper generator
\* ------------------------------------------------------------------------
\* The retrieved contexts: a sentence with a capital, two sentences without,
\* a text without a stop, and nothing.
PaperContexts ==
    { <<>>,
      << <<<<Run("A", 1), Run("a", 12), Run(".", 1)>>, 40>> >>,
      << <<<<Run("a", 499), Run(".", 1), Run(" ", 1), Run("b", 449),
             Run(".", 1)>>, 40>>,
         <<<<Run("A", 2), Run(" ", 1), Run("b", 90), Run("!", 1)>>, 2>> >>,
      << <<<<Run("a", 30)>>, 2>> >> }

PaperCalls ==
    [title : {"Quiz 1"}, num_q : {0, 1, 3}, chunks_scored : PaperContexts,
     server : ServerAnswers, style : {"quiz"}, difficulty : {"medium"},
     question_types : {<<>>, <<"MCQ", "Short Answer">>}]

InitPaper ==
    /\ ExtraIdle /\ TtIdle /\ LlmIdle /\ AcctIdle /\ TeachIdle /\ ChatIdle

CallGenerateAdvancedQuestions(a) ==
    /\ callArgs' = a
    /\ callRet' = generate_advanced_questions(a.title, a.num_q,
                      a.chunks_scored, a.server, Str("llama3.2"), a.style,
                      a.difficulty, a.question_types)
    /\ UNCHANGED <<ttVars, llmVars, acctVars, teachVars, chatVars>>
    /\ UNCHANGED <<usersColumns, question_papers, conns>>

NextPaper ==
    \/ \E a \in PaperCalls : CallGenerateAdvancedQuestions(a)

\* ------------------------------------------------------------------------
\* Specification of the database migration
\* ------------------------------------------------------------------------
\* A row of an installation whose users table has these columns
InstalledRow(columns, id, username) ==
    [c \in columns |->
        CASE c = "id" -> id
          [] c = "username" -> username
          [] c = "password_hash" -> hash_password("secret1")
          [] c = "email" -> DefaultEmail(username)
          [] c = "role" -> "teacher"
          [] c = "full_name" -> "Ann Lee"
          [] c = "is_active" -> 1
          [] OTHER -> 0]

\* An installation has no users table, or one with the base columns, some
\* of the later ones, and up to two rows.
InitMigrate ==
    /\ usersColumns \in
           {{}} \cup {BaseColumns \cup later :
                          later \in SUBSET (AllColumns \ BaseColumns)}
    /\ users \in IF usersColumns = {} THEN {<<>>}
                 ELSE {<<>>, <<InstalledRow(usersColumns, 1, "ann")>>,
                       <<InstalledRow(usersColumns, 1, "ann"),
                         InstalledRow(usersColumns, 2, "bob")>>}
    /\ now = 0 /\ registered = {} /\ app = "main.py"
    /\ session = FreshSession
    /\ question_papers = <<>> /\ conns = <<>>
    /\ FnIdle /\ TtIdle /\ LlmIdle /\ TeachIdle /\ ChatIdle

\* main.py runs migrate_database at the top of main().
MigrateDatabase ==
    /\ \E o \in migrate_database(usersColumns, users) :
           /\ usersColumns' = o.columns
           /\ users' = o.rows
           /\ callRet' = [raised |-> o.raised]
    /\ callArgs' = [columns |-> usersColumns, rows |-> users]
    /\ UNCHANGED <<now, registered, app, session>>
    /\ UNCHANGED <<ttVars, llmVars, teachVars, chatVars>>
    /\ UNCHANGED <<question_papers, conns>>

NextMigrate ==
    \/ MigrateDatabase

\* ------------------------------------------------------------------------
\* Specification of pages/Teacher.py: papers and timetable
\* ------------------------------------------------------------------------
\* ann has logged in at main.py and opened pages/Teacher.py.
InitTeacher ==
    /\ now = 0 /\ users = ChatUsers /\ registered = {}
    /\ app = "pages/Teacher.py"
    /\ session = [FreshSession EXCEPT !.authenticated = TRUE,
                                      !.user_id = 1, !.username = "ann",
                                      !.role = "teacher",
                                      !.full_name = "Ann Lee"]
    /\ timetables = <<>> /\ teacher_materials = <<>>
    /\ uploads = save_upload(<<>>, 1, <<FileNamed("syllabus")>>, 0)
    /\ uploader = <<>> /\ topic = "" /\ chat_history = <<>>
    /\ runLog = <<>>
    /\ TtIdle /\ LlmIdle /\ ExtraIdle

\* What is typed into paper_form and timetable_form
PaperForms ==
    [title : {"Unit Assessment"}, kind : {"quiz"}, num_q : {10},
     focus : {""}]
ScheduleForms ==
    [name : {"Week Plan"}, faculty : {<<" ">>, <<"A", " B ">>},
     slots : {<<"Mon 09:00-10:00">>}, courses : {<<"C">>}]

\* The server is down, or answers with a paper
PaperServerAnswers ==
    {a \in ServerAnswers :
        \/ a.kind = "refused"
        \/ a.json = JObj([message |-> JObj([content |-> JStr(Str("An answer."))])])}

\* Submit of paper_form, "Generate paper": the run shows the paper and the
\* button "Save paper", which belongs to this run only.
ClickGeneratePaper(f, server) ==
    /\ app = "pages/Teacher.py" /\ PastGate
    /\ LET up == UploadStep(app, session.user_id, uploader, topic, now)
           kb == session.teacher
           paper == call_local_llm_chat(server, llmModel)
       IN  /\ RunUploads(up)
           /\ callArgs' = f
           /\ IF ~kb.vec.fitted
              THEN /\ runLog' = up.log \o <<"st.warning">>
                   /\ UNCHANGED llmRet
              ELSE /\ llmRet' = [called |-> TRUE, raised |-> paper.raised,
                                 value |-> paper.value]
                   /\ runLog' = up.log
                          \o <<"retrieve", "call_local_llm_chat">>
                          \o (IF paper.value # <<>>
                              THEN <<"st.button Save paper">>
                              ELSE <<"st.error">>)
    /\ UNCHANGED <<llmServer, llmModel, llmBaseUrl, llmRequests>>
    /\ UNCHANGED <<acctVars, timetables, uploader, topic, chat_history>>
    /\ UNCHANGED <<ttVars, callRet, usersColumns, question_papers, conns>>

\* The button with this label is on the page the last run has drawn.
ButtonShown(label) ==
    \E i \in 1..Len(runLog) : runLog[i] = "st.button " \o label

\* A click on a button that the run of a form submit has drawn: the script
\* runs again, the submit button of the form is False in this run, and the
\* block that holds the clicked button and its handler is not entered.
ClickNestedButton(label) ==
    /\ app = "pages/Teacher.py" /\ PastGate
    /\ ButtonShown(label)
    /\ LET up == UploadStep(app, session.user_id, uploader, topic, now)
       IN  /\ RunUploads(up)
           /\ runLog' = <<"click " \o label>> \o up.log
    /\ UNCHANGED <<acctVars, timetables, uploader, topic, chat_history>>
    /\ UNCHANGED <<ttVars, llmVars, extraVars>>

\* Submit of timetable_form, "Build schedule": the run shows the schedule
\* and the button "Save timetable".
ClickBuildSchedule(f) ==
    /\ app = "pages/Teacher.py" /\ PastGate
    /\ LET up == UploadStep(app, session.user_id, uploader, topic, now)
           out == BuildSchedule(f.faculty, f.slots, f.courses)
       IN  /\ RunUploads(up)
           /\ ttOut' = out
           /\ runLog' = up.log
                  \o (IF out.status = "generated"
                      THEN <<"st.button Save timetable">>
                      ELSE <<"st.warning">>)
    /\ ttFaculty' = f.faculty /\ ttSlots' = f.slots
    /\ ttCourses' = f.courses /\ callArgs' = f
    /\ UNCHANGED <<acctVars, timetables, uploader, topic, chat_history>>
    /\ UNCHANGED <<ttMax, llmVars, callRet, usersColumns>>
    /\ UNCHANGED <<question_papers, conns>>

NextTeacher ==
    \/ \E files \in {<<>>, <<FileNamed("notes")>>} : Rerun(files, "")
    \/ BuildClick
    \/ \E f \in PaperForms, server \in PaperServerAnswers :
           ClickGeneratePaper(f, server)
    \/ \E f \in ScheduleForms : ClickBuildSchedule(f)
    \/ \E label \in {"Save paper", "Save timetable"} :
           ClickNestedButton(label)

\* ------------------------------------------------------------------------
\* Specification of register_user calls that run at the same time
\* ------------------------------------------------------------------------
\* Every call opens its own connection with sqlite3.connect(DB_PATH), whose
\* timeout is the default of 5 seconds; the database file is in the default
\* rollback-journal mode.  A connection holds no lock, a SHARED lock (it
\* reads) or the RESERVED lock (it has written and not yet committed).  The
\* time a connection waits for a lock is not part of the state: a connection
\* that finds the lock taken either tries again or has waited 5 seconds and
\* gets sqlite3.OperationalError "database is locked".
MaxConns == 2

RegisterPassword == "abc"

\* The outcomes of the INSERT and the value register_user returns for each,
\* on the table as the connection reads it.
RegisterOutcomes(c, table) ==
    IF c.variant = "main.py"
    THEN main_register_user(table, c.username, "", RegisterPassword,
                            "student", "")
    ELSE ollama_register_user(table, c.username, RegisterPassword)

\* What the except clauses make of OperationalError: main.py has
\* `except Exception`, ollama.py only catches sqlite3.IntegrityError.
LockedMsg == "Error: database is locked"

NewConn(variant, username) ==
    [variant |-> variant, username |-> username, pc |-> "connect",
     lock |-> "unlocked", view |-> <<>>, exc |-> "", ret |-> <<FALSE, "">>]

Others(p) == (1..Len(conns)) \ {p}

InitRegister ==
    /\ now = 0 /\ registered = {}
    /\ app = "main.py" /\ session = FreshSession
    /\ users \in {<<>>, <<RowWithoutRole>>}
    /\ conns \in [1..MaxConns ->
                     {NewConn(v, u) : v \in {"main.py", "ollama.py"},
                                      u \in Usernames}]
    /\ TeachIdle /\ ChatIdle /\ TtIdle /\ LlmIdle
    /\ FnIdle /\ ColumnsIdle /\ question_papers = <<>>

\* What a step of a register_user call leaves alone
RegisterFrame ==
    /\ runLog' = <<>>
    /\ UNCHANGED <<now, app, session, uploader, topic, uploads, chat_history>>
    /\ UNCHANGED <<ttVars, llmVars, teachVars, fnVars, usersColumns,
                   question_papers>>

\* c.execute("INSERT ..."): the statement starts reading the database
ExecuteShared(p) ==
    /\ conns[p].pc = "connect"
    /\ conns' = [conns EXCEPT ![p].pc = "execute", ![p].lock = "shared"]
    /\ UNCHANGED <<users, registered>>
    /\ RegisterFrame

\* The statement takes the RESERVED lock and inserts the row, or fails on a
\* UNIQUE constraint; the transaction that the sqlite3 module has begun
\* stays open in both cases.
ExecuteInsert(p) ==
    /\ conns[p].pc = "execute"
    /\ \A q \in Others(p) : conns[q].lock # "reserved"
    /\ \E o \in RegisterOutcomes(conns[p], users) :
           conns' = [conns EXCEPT
                        ![p].lock = "reserved",
                        ![p].view = o.users,
                        ![p].ret = o.ret,
                        ![p].pc = IF o.ret[1] THEN "commit" ELSE "exit",
                        ![p].exc = IF o.ret[1] THEN ""
                                   ELSE "IntegrityError"]
    /\ UNCHANGED <<users, registered>>
    /\ RegisterFrame

\* Another connection holds the RESERVED lock: the statement gives its
\* SHARED lock back and the busy handler lets it start again
ExecuteBusy(p) ==
    /\ conns[p].pc = "execute"
    /\ \E q \in Others(p) : conns[q].lock = "reserved"
    /\ conns' = [conns EXCEPT ![p].pc = "connect", ![p].lock = "unlocked"]
    /\ UNCHANGED <<users, registered>>
    /\ RegisterFrame

\* ... or the 5 seconds are over
ExecuteLocked(p) ==
    /\ conns[p].pc = "execute"
    /\ \E q \in Others(p) : conns[q].lock = "reserved"
    /\ conns' = [conns EXCEPT ![p].pc = "exit", ![p].lock = "unlocked",
                              ![p].exc = "OperationalError"]
    /\ UNCHANGED <<users, registered>>
    /\ RegisterFrame

\* conn.commit() needs the database for itself; the with block ends and
\* register_user returns success
Commit(p) ==
    /\ conns[p].pc = "commit"
    /\ \A q \in Others(p) : conns[q].lock # "shared"
    /\ users' = conns[p].view
    /\ registered' = IF conns[p].variant = "main.py"
                     THEN registered \cup
                              {<<conns[p].username, RegisterPassword>>}
                     ELSE registered
    /\ conns' = [conns EXCEPT ![p].pc = "returned", ![p].lock = "unlocked"]
    /\ RegisterFrame

\* conn.commit() has waited 5 seconds for a connection that reads; the
\* transaction stays open
CommitLocked(p) ==
    /\ conns[p].pc = "commit"
    /\ \E q \in Others(p) : conns[q].lock = "shared"
    /\ conns' = [conns EXCEPT ![p].pc = "exit",
                              ![p].exc = "OperationalError"]
    /\ UNCHANGED <<users, registered>>
    /\ RegisterFrame

\* An exception leaves the with block: the connection rolls back, then the
\* except clauses of register_user run
ExitWith(p) ==
    /\ conns[p].pc = "exit"
    /\ conns' =
           [conns EXCEPT
               ![p].lock = "unlocked",
               ![p].view = <<>>,
               ![p].pc = IF /\ conns[p].exc = "OperationalError"
                            /\ conns[p].variant = "ollama.py"
                         THEN "raised" ELSE "returned",
               ![p].ret = IF conns[p].exc = "IntegrityError"
                          THEN conns[p].ret
                          ELSE IF conns[p].variant = "main.py"
                               THEN <<FALSE, LockedMsg>>
                               ELSE <<FALSE, "">>]
    /\ UNCHANGED <<users, registered>>
    /\ RegisterFrame

NextRegister ==
    \E p \in 1..MaxConns :
        \/ ExecuteShared(p)
        \/ ExecuteInsert(p)
        \/ ExecuteBusy(p)
        \/ ExecuteLocked(p)
        \/ Commit(p)
        \/ CommitLocked(p)
        \/ ExitWith(p)

\* ------------------------------------------------------------------------
\* Specification of retrieve, called on its own
\* ------------------------------------------------------------------------
MaxRows == 3

RetrieveLevels == {0, 1, 2, 40}

\* The orders sims.argsort()[::-1] can give: every row once, similarities
\* not increasing; the order of rows with equal similarity is up to numpy.
ArgsortReversed(sims) ==
    {idxs \in [1..Len(sims) -> 1..Len(sims)] :
        /\ \A i, j \in 1..Len(sims) : idxs[i] = idxs[j] => i = j
        /\ \A i \in 1..Len(sims) - 1 : sims[idxs[i]] >= sims[idxs[i + 1]]}

ChunkTexts == <<Str("c1"), Str("c2"), Str("c3"), Str("c4")>>

\* A fitted vectorizer and matrix of n rows; the list of chunks handed in
\* is the list they were fitted on or, for the last choice, one chunk short.
RetrieveCalls ==
    UNION {UNION {[query : {"", "q"},
                   vectorizer : {NoVec, [fitted |-> TRUE,
                                         docs |-> SubSeq(ChunkTexts, 1, n)]},
                   matrix : {NoMat, [fitted |-> TRUE, rows |-> n]},
                   chunks : {SubSeq(ChunkTexts, 1, n),
                             SubSeq(ChunkTexts, 1, n - 1)},
                   k : 0..MaxRows,
                   sims : {sims}, idxs : ArgsortReversed(sims)] :
                      sims \in [1..n -> RetrieveLevels]} : n \in 1..MaxRows}

\* The arguments of the call are drawn first, then retrieve is applied.
InitRetrieve ==
    /\ callArgs \in RetrieveCalls /\ callRet = <<>>
    /\ ColumnsIdle /\ question_papers = <<>> /\ conns = <<>>
    /\ TtIdle /\ LlmIdle /\ AcctIdle /\ TeachIdle /\ ChatIdle

CallRetrieve ==
    /\ runLog = <<>>
    /\ runLog' = <<"retrieve">>
    /\ callRet' = retrieve(callArgs.query, callArgs.vectorizer,
                           callArgs.matrix, callArgs.chunks, callArgs.k,
                           callArgs.sims, callArgs.idxs)
    /\ UNCHANGED <<uploader, topic, uploads, chat_history, callArgs>>
    /\ UNCHANGED <<ttVars, llmVars, acctVars, teachVars>>
    /\ UNCHANGED <<usersColumns, question_papers, conns>>

NextRetrieve == CallRetrieve

\* ------------------------------------------------------------------------
\* Specification of pdfs_to_text_chunks, called on its own
\* ------------------------------------------------------------------------
MaxFiles == 3

\* The lists of files and the chunk sizes the scripts pass in
ChunkCalls ==
    [files : SeqsUpTo(Blobs, MaxFiles),
     params : {ChunkParams(script) : script \in PortalScripts}]

InitChunks ==
    /\ callArgs \in ChunkCalls /\ callRet = <<>>
    /\ ColumnsIdle /\ question_papers = <<>> /\ conns = <<>>
    /\ TtIdle /\ LlmIdle /\ AcctIdle /\ TeachIdle /\ ChatIdle

CallPdfsToTextChunks ==
    /\ runLog = <<>>
    /\ runLog' = <<"pdfs_to_text_chunks">>
    /\ callRet' = [chunks |-> pdfs_to_text_chunks(callArgs.files,
                                  callArgs.params[1], callArgs.params[2]),
                   warnings |-> PdfWarnings(callArgs.files)]
    /\ UNCHANGED <<uploader, topic, uploads, chat_history, callArgs>>
    /\ UNCHANGED <<ttVars, llmVars, acctVars, teachVars>>
    /\ UNCHANGED <<usersColumns, question_papers, conns>>

NextChunks == CallPdfsToTextChunks

vars == <<ttVars, llmVars, acctVars, teachVars, chatVars, extraVars>>

SpecChat == InitChat /\ [][NextChat]_vars

SpecPaper == InitPaper /\ [][NextPaper]_vars

SpecMigrate == InitMigrate /\ [][NextMigrate]_vars

SpecTeacher == InitTeacher /\ [][NextTeacher]_vars

SpecRegister == InitRegister /\ [][NextRegister]_vars

SpecRetrieve == InitRetrieve /\ [][NextRetrieve]_vars

SpecChunks == InitChunks /\ [][NextChunks]_vars

SpecAuth == InitAuth /\ [][NextAuth]_vars

SpecTT == InitTT /\ [][NextTT]_vars

SpecLLM == InitLLM /\ [][NextLLM]_vars

\* ------------------------------------------------------------------------
\* Properties of the timetable generators
\* ------------------------------------------------------------------------
IsDistinct(seq) == \A i, j \in 1..Len(seq) : seq[i] = seq[j] => i = j

EntriesOf(rows, f) == {k \in 1..Len(rows) : rows[k].Faculty = f}

FromBuildSchedule == ttOut.status \in {"warning", "generated", "nothing"}
FromSmartTimetable == ttOut.status \in {"error", "smart"}

\* C3: pages/Teacher.py timetable generator. With F, S, C the faculty, slot
\* and course lines without blank lines: if F or S is empty no schedule is
\* produced; otherwise the schedule has len(S) rows in slot order and row i
\* (0-based) has Time Slot S[i], Faculty F[i mod len(F)] and, when C is not
\* empty, Course C[i mod len(C)], and no Course field when C is empty.
C3_RoundRobinSchedule ==
    FromBuildSchedule =>
        LET F == StripLines(ttFaculty)
            S == StripLines(ttSlots)
            C == StripLines(ttCourses)
            rows == ttOut.rows
        IN  IF F = <<>> \/ S = <<>>
            THEN ttOut.status = "warning" /\ rows = <<>>
            ELSE /\ ttOut.status = "generated"
                 /\ Len(rows) = Len(S)
                 /\ \A i \in 0..(Len(S) - 1) :
                        /\ rows[i + 1].TimeSlot = S[i + 1]
                        /\ rows[i + 1].Faculty = F[(i % Len(F)) + 1]
                        /\ IF C # <<>>
                           THEN rows[i + 1].Course = C[(i % Len(C)) + 1]
                           ELSE DOMAIN rows[i + 1] = {"TimeSlot", "Faculty"}

\* A schedule in which both the faculty and the course rotation wrap around,
\* built from text areas that held a blank line.
C3_Witness ==
    /\ ttOut.status = "generated"
    /\ Len(StripLines(ttFaculty)) = 2
    /\ Len(StripLines(ttFaculty)) < Len(ttFaculty)
    /\ Len(StripLines(ttCourses)) = 1
    /\ Len(ttOut.rows) = 5
    /\ Len(ttSlots) = 6

\* C4 as stated: for distinct faculty names and while no max-hours limit has
\* been reached, the entry for slot index i has Faculty
\* faculty_list[i mod len(faculty_list)] and, when subjects is not empty,
\* Subject subjects[i mod len(subjects)].
C4_AsStated ==
    FromSmartTimetable =>
        LET F == StripLines(ttFaculty)
            S == StripLines(ttSlots)
            subjects == StripLines(ttCourses)
            rows == ttOut.rows
        IN  (IsDistinct(F) /\ Len(rows) = Len(S)) =>
                \A i \in 0..(Len(rows) - 1) :
                    /\ rows[i + 1].Faculty = F[(i % Len(F)) + 1]
                    /\ subjects # <<>> =>
                           rows[i + 1].Subject = subjects[(i % Len(subjects)) + 1]

\* C4 amended: generate_smart_timetable rotates over the least-loaded
\* faculty. For distinct faculty names and while no max-hours limit has been
\* reached, every block of len(faculty_list) consecutive slot indices that
\* starts at a multiple of len(faculty_list) gives each faculty member at
\* most one entry, the first slot of each block goes to faculty_list[0],
\* Faculty = faculty_list[i mod len(faculty_list)] holds whenever
\* len(faculty_list) <= 2, and Subject = subjects[i mod len(subjects)] when
\* subjects is not empty.
C4_LeastLoadedRotation ==
    FromSmartTimetable =>
        LET F == StripLines(ttFaculty)
            S == StripLines(ttSlots)
            subjects == StripLines(ttCourses)
            rows == ttOut.rows
            n == Len(F)
        IN  (IsDistinct(F) /\ Len(rows) = Len(S)) =>
                /\ \A i, j \in 0..(Len(rows) - 1) :
                       (i # j /\ i \div n = j \div n) =>
                           rows[i + 1].Faculty # rows[j + 1].Faculty
                /\ \A i \in 0..(Len(rows) - 1) :
                       /\ rows[i + 1].Faculty \in Range(F)
                       /\ (i % n = 0) => rows[i + 1].Faculty = F[1]
                       /\ (n <= 2) => rows[i + 1].Faculty = F[(i % n) + 1]
                       /\ subjects # <<>> =>
                              rows[i + 1].Subject =
                                  subjects[(i % Len(subjects)) + 1]

\* Three distinct faculty members, no limit reached, a second block begun,
\* and the second slot not given to the second faculty member.
C4_Witness ==
    /\ ttOut.status = "smart"
    /\ StripLines(ttFaculty) = <<"A", "B", "C">>
    /\ Len(ttOut.rows) = Len(StripLines(ttSlots))
    /\ Len(ttOut.rows) = 5
    /\ ttOut.rows[2].Faculty = "C"
    /\ StripLines(ttCourses) # <<>>

\* C5: with constraints['max_hours_per_faculty'] = m >= 1 no faculty name
\* appears in more than m entries of the schedule returned by
\* generate_smart_timetable, hence in no more than m entries of any one day.
C5_MaxHoursRespected ==
    FromSmartTimetable =>
        \A f \in Range(StripLines(ttFaculty)) :
            /\ Cardinality(EntriesOf(ttOut.rows, f)) <= ttMax
            /\ \A d \in {ttOut.rows[k].Day : k \in 1..Len(ttOut.rows)} :
                   Cardinality({k \in EntriesOf(ttOut.rows, f) :
                                   ttOut.rows[k].Day = d}) <= ttMax

\* The limit was reached: slots were left out because the selected faculty
\* member already had m entries, with a faculty name listed twice.
C5_Witness ==
    /\ ttOut.status = "smart"
    /\ ttMax = 2
    /\ StripLines(ttFaculty) = <<"A", "B", "A">>
    /\ Len(ttOut.rows) < Len(StripLines(ttSlots))
    /\ Cardinality(EntriesOf(ttOut.rows, "A")) = 2
    /\ Cardinality(EntriesOf(ttOut.rows, "B")) = 2

\* The number of entries of f among the first n rows
LoadAfter(rows, n, f) == Cardinality({k \in 1..n : rows[k].Faculty = f})

\* C20: generate_smart_timetable keeps the assignments balanced: after
\* every slot it has processed, and so in the schedule it returns, the
\* numbers of entries of any two members of faculty_list differ by at most 1.
C20_LoadBalanced ==
    FromSmartTimetable =>
        LET faculty_list == StripLines(ttFaculty)
        IN  \A n \in 0..Len(ttOut.rows) :
                \A i, j \in 1..Len(faculty_list) :
                    LoadAfter(ttOut.rows, n, faculty_list[i])
                        <= LoadAfter(ttOut.rows, n, faculty_list[j]) + 1

\* A returned schedule in which one member has an entry more than another,
\* and every member has at least one
C20_Witness ==
    /\ ttOut.status = "smart"
    /\ LET faculty_list == StripLines(ttFaculty)
           n == Len(ttOut.rows)
       IN  /\ \A i \in 1..Len(faculty_list) :
                  LoadAfter(ttOut.rows, n, faculty_list[i]) >= 1
           /\ \E i, j \in 1..Len(faculty_list) :
                  LoadAfter(ttOut.rows, n, faculty_list[i])
                      = LoadAfter(ttOut.rows, n, faculty_list[j]) + 1

\* ------------------------------------------------------------------------
\* Properties of call_local_llm_chat
\* ------------------------------------------------------------------------
ReplyMessage == DictGet(llmServer.json, "message", JObj(<<>>))
ReplyHasObject ==
    /\ llmServer.kind = "response" /\ llmServer.status = 200
    /\ llmServer.json.t = "obj" /\ ReplyMessage.t = "obj"
ReplyText == DictGet(ReplyMessage, "content", JStr(<<>>))

\* C2: call_local_llm_chat never raises and returns a non-empty string for
\* every outcome of the HTTP request: the reply content on success,
\* 'No response from LLM.' when the content is empty or missing, the
\* 'Cannot connect to Ollama server...' message on a connection error, the
\* "Model '<model>' not found..." message on HTTP 404, 'HTTP error <status>:
\* <body>' on any other HTTP error status, and 'Local LLM error: ...' on any
\* other exception.
C2_AlwaysReturnsText ==
    llmRet.called =>
        /\ ~llmRet.raised
        /\ llmRet.value # <<>>
        /\ CASE llmServer.kind \in {"refused", "connect_timeout"} ->
                    llmRet.value = CannotConnectMsg
             [] llmServer.kind = "response" /\ llmServer.status = 404 ->
                    llmRet.value = ModelNotFoundMsg(llmModel)
             [] llmServer.kind = "response" /\ llmServer.status \in {400, 500} ->
                    llmRet.value = HttpErrorMsg(llmServer.status, llmServer.text)
             [] ReplyHasObject /\ ReplyText.t = "str" /\ ReplyText.s # <<>> ->
                    llmRet.value = ReplyText.s
             [] ReplyHasObject ->
                    llmRet.value = Str("No response from LLM.")
             [] OTHER ->
                    llmRet.value[1] = "Local LLM error: "

\* The server answered 200 with an empty content and the caller still got a
\* non-empty text.
C2_Witness ==
    /\ llmRet.called
    /\ llmServer.json = JObj([message |-> JObj([content |-> JStr(<<>>)])])
    /\ llmRet.value = Str("No response from LLM.")

\* ------------------------------------------------------------------------
\* Properties of the accounts
\* ------------------------------------------------------------------------
\* The role the users table stores for a user id, NULL without such a row
StoredRole(user_id) ==
    IF \E i \in 1..Len(users) : users[i].id = user_id
    THEN users[CHOOSE i \in 1..Len(users) : users[i].id = user_id].role
    ELSE NULL

\* The names and passwords a login form can send
LoginNames == Usernames \cup {""}

\* C7: main.authenticate_user(username, password) succeeds exactly when a
\* users row has that username and password_hash = hash_password(password).
\* On success it returns the id of that row, its role ('student' for a null
\* role) and its full_name (the username when that is empty), and the table
\* afterwards differs from the table before in the last_login of that row
\* only; on failure it returns (False, None, None, None) and the table is
\* the same.  A session that main.py has authenticated carries these values.
C7_AuthenticateContract ==
    /\ \A username \in LoginNames, password \in Passwords :
           LET r == main_authenticate_user(users, username, password, now)
               rows == {i \in 1..Len(users) :
                           /\ users[i].username = username
                           /\ users[i].password_hash = hash_password(password)}
           IN  IF rows # {}
               THEN \E i \in rows :
                       /\ r.ret = <<TRUE, users[i].id,
                                    IF users[i].role = NULL THEN "student"
                                    ELSE users[i].role,
                                    IF users[i].full_name \in {NULL, ""}
                                    THEN username ELSE users[i].full_name>>
                       /\ Len(r.users) = Len(users)
                       /\ \A j \in 1..Len(users) :
                              r.users[j] =
                                  IF j = i
                                  THEN [users[j] EXCEPT !.last_login = now]
                                  ELSE users[j]
               ELSE /\ r.ret = <<FALSE, NoId, NULL, NULL>>
                    /\ r.users = users
    /\ session.authenticated =>
           \E i \in 1..Len(users) :
               /\ users[i].id = session.user_id
               /\ users[i].username = session.username
               /\ users[i].last_login # NoTime
               /\ session.role = IF users[i].role = NULL THEN "student"
                                 ELSE users[i].role
               /\ session.full_name = IF users[i].full_name \in {NULL, ""}
                                      THEN session.username
                                      ELSE users[i].full_name

\* A row with a null role and an empty full name has logged in at main.py
\* after the clock has moved, and the other row has never logged in.
C7_Witness ==
    /\ session.authenticated /\ Len(users) = 2 /\ now > 0
    /\ session.role = "student" /\ session.full_name = session.username
    /\ \E i, j \in 1..Len(users) :
           /\ users[i].id = session.user_id
           /\ users[i].role = NULL /\ users[i].full_name = ""
           /\ users[i].last_login = now
           /\ j # i /\ users[j].last_login = NoTime

\* The e-mail main.register_user stores for a sign-up
StoredEmail(username, email) ==
    IF email # "" THEN email ELSE DefaultEmail(username)

\* C8, as the specification states it: main.register_user returns
\* (False, 'Username already exists!') for a username that is stored, and
\* (False, 'Email already registered!') for a new username whose e-mail
\* (the default '<username>@example.com' when none is given) is stored,
\* leaving the table as it is in both cases; a success adds exactly one row.
C8_AsStated ==
    \A f \in SignupForms :
        SignupError(f) = "" =>
            \A o \in main_register_user(users, f.new_username, f.email,
                                        f.new_password, f.role, f.full_name) :
                LET nameStored == \E i \in 1..Len(users) :
                                      users[i].username = f.new_username
                    mailStored == \E i \in 1..Len(users) :
                                      users[i].email =
                                          StoredEmail(f.new_username, f.email)
                IN  /\ nameStored =>
                           /\ o.ret = <<FALSE, "Username already exists!">>
                           /\ o.users = users
                    /\ ~nameStored /\ mailStored =>
                           /\ o.ret = <<FALSE, "Email already registered!">>
                           /\ o.users = users
                    /\ o.ret[1] =>
                           /\ Len(o.users) = Len(users) + 1
                           /\ SubSeq(o.users, 1, Len(users)) = users

\* C9: after main.register_user(u, e, p, role, name) has succeeded,
\* main.authenticate_user(u, p) and the authenticate_user of ollama.py both
\* succeed and return the same user id, and both fail for every password
\* whose hash differs from the hash of p.
C9_MainAccountWorksInPortals ==
    \A c \in registered :
        LET m == main_authenticate_user(users, c[1], c[2], now)
            o == ollama_authenticate_user(users, c[1], c[2])
        IN  /\ m.ret[1] /\ o[1]
            /\ m.ret[2] = o[2] /\ o[2] # NoId
            /\ \A q \in Passwords :
                   hash_password(q) # hash_password(c[2]) =>
                       /\ ~main_authenticate_user(users, c[1], q, now).ret[1]
                       /\ ~ollama_authenticate_user(users, c[1], q)[1]

\* An account made by the sign-up form of main.py has logged in at main.py
\* and is now logged in at a portal.
C9_Witness ==
    /\ app \in {"ollama.py", "teacher_page.py"}
    /\ session.user_id # NoId
    /\ \E c \in registered, i \in 1..Len(users) :
           /\ c[1] = session.username
           /\ users[i].username = c[1] /\ users[i].id = session.user_id
           /\ users[i].last_login # NoTime

\* C10, as the specification states it: a session is past the gate of
\* pages/Teacher.py or the login of teacher_page.py only when the role stored
\* for its user is 'teacher', and no row of timetables or teacher_materials
\* belongs to a user whose stored role is 'student'.
C10_AsStated ==
    /\ app \in TeacherScripts /\ PastGate =>
           StoredRole(session.user_id) = "teacher"
    /\ \A i \in 1..Len(timetables) :
           StoredRole(timetables[i].user_id) # "student"
    /\ \A i \in 1..Len(teacher_materials) :
           StoredRole(teacher_materials[i].user_id) # "student"

\* ------------------------------------------------------------------------
\* Properties of the portal pages
\* ------------------------------------------------------------------------
\* The position of the first entry e of the log, 0 when there is none
PosIn(log, e) ==
    IF \E i \in 1..Len(log) : log[i] = e
    THEN CHOOSE i \in 1..Len(log) :
             log[i] = e /\ \A j \in 1..(i - 1) : log[j] # e
    ELSE 0

Logged(e) == PosIn(runLog, e) > 0

\* The steps of the RAG pipeline
RagSteps == {"retrieve", "rag_answer", "call_local_llm_chat", "save_chat"}

\* C1: in the student chat a run calls retrieve, then rag_answer, then the
\* LLM, each at most once and none without the one before; and retrieve,
\* the LLM and save_chat are called only when the session holds a
\* vectorizer fitted by a build of this session, so a question asked before
\* any successful build reaches none of them.
C1_RagOrderAndGate ==
    /\ \A e \in RagSteps :
           Cardinality({i \in 1..Len(runLog) : runLog[i] = e}) <= 1
    /\ Logged("rag_answer") =>
           /\ Logged("retrieve")
           /\ PosIn(runLog, "retrieve") < PosIn(runLog, "rag_answer")
    /\ Logged("call_local_llm_chat") =>
           /\ Logged("rag_answer")
           /\ PosIn(runLog, "rag_answer")
                  < PosIn(runLog, "call_local_llm_chat")
    /\ Logged("save_chat") =>
           /\ Logged("rag_answer")
           /\ \A e \in RagSteps \ {"save_chat"} :
                  PosIn(runLog, e) < PosIn(runLog, "save_chat")
    /\ (\E e \in RagSteps : Logged(e)) =>
           /\ app \in ChatScripts /\ PastGate
           /\ Logged("chat_form")
           /\ session.student.vec.fitted
           /\ session.student.chunks # <<>>
           /\ session.student.vec.docs = session.student.chunks
    /\ Logged("chat_form") /\ ~session.student.vec.fitted =>
           \A e \in RagSteps : ~Logged(e)

\* A question has gone through retrieval and prompt assembly to the LLM and
\* the answer is saved, in pages/Students.py.
C1_Witness ==
    /\ app = "pages/Students.py"
    /\ Logged("retrieve") /\ Logged("rag_answer")
    /\ Logged("call_local_llm_chat") /\ Logged("save_chat")
    /\ chat_history # <<>>

\* The keys of the two knowledge bases in the session state
KbKeys == {"student", "teacher"}

\* The step stays in one browser session: the script is the same, or both
\* are pages of main.py.
SameSession ==
    app' = app \/ (app \in MainScripts /\ app' \in MainScripts)

\* The step is a run that has built a vector store.
BuiltInStep == \E i \in 1..Len(runLog') : runLog'[i] = "build_vector_store"

\* After the step the knowledge base kb is one built from all the files the
\* tables hold for the user, in some order, with the chunk sizes of the
\* script.
RebuiltFromAllFiles(kb) ==
    LET table == IF app = "teacher_page.py" THEN teacher_materials'
                 ELSE uploads'
        mine == {i \in 1..Len(table) : table[i].user_id = session.user_id}
        n == Cardinality(mine)
    IN  \E f \in [1..n -> mine] :
            /\ \A a, b \in 1..n : f[a] = f[b] => a = b
            /\ LET chunks == pdfs_to_text_chunks(
                                 [k \in 1..n |-> table[f[k]].content],
                                 ChunkParams(app)[1], ChunkParams(app)[2])
               IN  /\ chunks # <<>>
                   /\ kb.chunks = chunks
                   /\ <<kb.vec, kb.mat>> \in build_vector_store(chunks)

\* What every step does to the knowledge bases when it builds one: the
\* triple of the script is a knowledge base rebuilt from all stored files
\* of the user, and the other triple stays.
BuildReplacesAll ==
    BuiltInStep =>
        /\ RebuiltFromAllFiles(session'[KbKey(app)])
        /\ \A key \in KbKeys \ {KbKey(app)} : session'[key] = session[key]

\* C6, as the specification states it: within a session, a step that builds
\* no vector store (an upload being stored, a build that yields no chunks,
\* anything else) leaves both knowledge bases as they are, and a build that
\* yields chunks replaces the triple by one rebuilt from all stored files.
C6_AsStated ==
    [][SameSession =>
          /\ BuildReplacesAll
          /\ ~BuiltInStep =>
                 \A key \in KbKeys : session'[key] = session[key]]_vars

\* C6: within a session, a step that builds no vector store leaves both
\* knowledge bases as they are, unless it is a Logout, which deletes them
\* with every other key of the session state; a build that yields chunks
\* replaces the triple by one rebuilt from all stored files of the user.
C6_KbChangesOnlyByBuildOrLogout ==
    [][SameSession =>
          /\ BuildReplacesAll
          /\ ~BuiltInStep =>
                 \/ \A key \in KbKeys : session'[key] = session[key]
                 \/ /\ session.user_id # NoId
                    /\ session' = FreshSession]_vars

\* A knowledge base was built, and a later run has stored an upload and
\* left the knowledge base in place.
C6_Witness ==
    /\ session.student.vec.fitted /\ session.student.chunks # <<>>
    /\ runLog = <<"save_upload">>

\* ------------------------------------------------------------------------
\* Properties of the session gate
\* ------------------------------------------------------------------------
\* A login with some password the form accepts succeeds for the name and
\* returns the id.
LoginSucceeds(username, user_id) ==
    \E p \in Passwords \ {""} :
        IF app = "main.py"
        THEN LET r == main_authenticate_user(users, username, p, now)
             IN  r.ret[1] /\ r.ret[2] = user_id
        ELSE ollama_authenticate_user(users, username, p) = <<TRUE, user_id>>

\* C11: in every script the content behind the gate is reached only while
\* the session holds a user_id that is not None, together with the username
\* of that users row; the user_id is set only by a login form whose
\* authenticate_user call succeeds for that username (so a failed login
\* leaves the session as it is), and a step that takes the user_id away
\* deletes every key of the session, the knowledge bases included, and
\* leaves the content unreachable.
C11_SessionGate ==
    /\ [](/\ PastGate => session.user_id # NoId
          /\ session.authenticated => session.user_id # NoId
          /\ session.user_id # NoId =>
                 \E i \in 1..Len(users) :
                     /\ users[i].id = session.user_id
                     /\ users[i].username = session.username)
    /\ [][/\ session'.user_id # session.user_id /\ session'.user_id # NoId =>
                 /\ session.user_id = NoId /\ app' = app
                 /\ app \in {"main.py", "ollama.py", "teacher_page.py"}
                 /\ session'.username \in Usernames
                 /\ LoginSucceeds(session'.username, session'.user_id)
          /\ session.user_id # NoId /\ session'.user_id = NoId =>
                 /\ session' = FreshSession
                 /\ ~PastGate']_vars

\* A session that logged in at main.py is past the gate of pages/Students.py
\* while another account exists whose password it did not give.
C11_Witness ==
    /\ app = "pages/Students.py" /\ PastGate
    /\ session.authenticated /\ session.user_id # NoId
    /\ \E i, j \in 1..Len(users) :
           /\ users[i].id = session.user_id
           /\ users[i].username = session.username
           /\ j # i

\* ------------------------------------------------------------------------
\* Properties of the question paper generator
\* ------------------------------------------------------------------------
\* The LLM call fails: the server is unreachable, answers with an HTTP
\* error, or its reply carries no content.
LlmCallFails(server) ==
    \/ PostOutcome(server).raised
    \/ ReplyContent_NoDefault(server.json).raised
    \/ ReplyContent_NoDefault(server.json).value = <<>>

\* C12, as the specification states it: when the LLM call of
\* generate_advanced_questions fails, the function warns 'using fallback'
\* and returns fallback questions, min(num_q, number of topics) of them,
\* numbered from 1 and cycling through the question types.
C12_AsStated ==
    callArgs # <<>> /\ callArgs.chunks_scored # <<>>
        /\ LlmCallFails(callArgs.server) =>
            /\ callRet.warned /\ callRet.kind = "fallback"
            /\ Len(callRet.questions) <= callArgs.num_q
            /\ \A i \in 1..Len(callRet.questions) :
                   LET types == IF callArgs.question_types = <<>>
                                THEN DefaultQuestionTypes
                                ELSE callArgs.question_types
                   IN  /\ callRet.questions[i].number = i
                       /\ callRet.questions[i].type =
                              types[(i % Len(types)) + 1]

\* ------------------------------------------------------------------------
\* Properties of the database migration
\* ------------------------------------------------------------------------
\* C13, as the specification states it: migrate_database handles every
\* installation; after it has run on a database without a users table, or
\* with a users table lacking any of the six columns, it has returned, the
\* table has all six columns, every row that was there is there with its
\* username and password_hash, and another run changes nothing.
C13_AsStated ==
    callArgs # <<>> =>
        /\ ~callRet.raised
        /\ \A i \in 1..Len(MigratedColumns) :
               MigratedColumns[i] \in usersColumns
        /\ Len(users) = Len(callArgs.rows)
        /\ \A k \in 1..Len(callArgs.rows) :
               /\ users[k].username = callArgs.rows[k].username
               /\ users[k].password_hash = callArgs.rows[k].password_hash
        /\ \A o \in migrate_database(usersColumns, users) :
               ~o.raised /\ o.columns = usersColumns /\ o.rows = users

\* ------------------------------------------------------------------------
\* Properties of the HTTP requests
\* ------------------------------------------------------------------------
\* The requests sent so far with a method
RequestsBy(method) ==
    SelectSeq(llmRequests, LAMBDA r : r.method = method)

\* C14: an invocation of call_local_llm_chat has sent exactly one POST to
\* <base_url>/api/chat and an invocation of test_ollama_connection exactly
\* one GET to <base_url>/api/tags, whether the request failed or not; no
\* other request is sent.
C14_OneRequestPerCall ==
    /\ RequestsBy("POST") =
           IF llmRet.called
           THEN <<[method |-> "POST",
                   url |-> <<RStripSlash(llmBaseUrl), "/api/chat">>]>>
           ELSE <<>>
    /\ RequestsBy("GET") =
           IF callArgs # <<>>
           THEN <<[method |-> "GET",
                   url |-> <<RStripSlash(llmBaseUrl), "/api/tags">>]>>
           ELSE <<>>
    /\ Len(llmRequests) = Len(RequestsBy("POST")) + Len(RequestsBy("GET"))

\* Both functions were invoked, neither reached the server, and both have
\* returned their message.
C14_Witness ==
    /\ llmRet.called /\ llmServer.kind = "refused"
    /\ llmRet.value = CannotConnectMsg
    /\ callArgs # <<>> /\ callArgs.server.kind = "read_timeout"
    /\ callRet[1] = FALSE
    /\ Len(llmRequests) = 2

\* ------------------------------------------------------------------------
\* Properties of clear_user_data
\* ------------------------------------------------------------------------
\* The rows of a table that belong to a user
RowsOf(table, user_id) ==
    SelectSeq(table, LAMBDA row : row.user_id = user_id)

\* The ids of the users
UserIds == {users[i].id : i \in 1..Len(users)}

\* C15: a step that deletes rows of chat_history or uploads is a
\* clear_user_data(u): afterwards get_chat_history(u) and get_uploads(u) are
\* empty, the rows of every other user in both tables are the ones from
\* before, and the users table is unchanged.
C15_ClearUserData ==
    [][Len(chat_history') < Len(chat_history)
           \/ Len(uploads') < Len(uploads) =>
          \E u \in UserIds :
              /\ get_chat_history(chat_history', u, 20) = <<>>
              /\ get_uploads(uploads', u) = {<<>>}
              /\ \A v \in UserIds \ {u} :
                     /\ RowsOf(chat_history', v) = RowsOf(chat_history, v)
                     /\ RowsOf(uploads', v) = RowsOf(uploads, v)
              /\ Len(chat_history') =
                     Len(chat_history) - Len(RowsOf(chat_history, u))
              /\ Len(uploads') = Len(uploads) - Len(RowsOf(uploads, u))
              /\ users' = users]_vars

\* bob built a knowledge base from his uploads and his data has been
\* cleared since, while the rows of ann are in both tables.
C15_Witness ==
    /\ session.user_id = 2 /\ session.student.chunks # <<>>
    /\ RowsOf(uploads, 2) = <<>> /\ RowsOf(chat_history, 2) = <<>>
    /\ RowsOf(uploads, 1) # <<>> /\ RowsOf(chat_history, 1) # <<>>
    /\ runLog = <<>>

\* ------------------------------------------------------------------------
\* Properties of the nested buttons of pages/Teacher.py
\* ------------------------------------------------------------------------
\* C16, as the specification states it: a click on "Save paper" after a
\* paper was generated inserts one question_papers row for the session user
\* with the title and type of the form and the generated content, and a
\* click on "Save timetable" after a schedule was generated inserts one
\* timetables row with the schedule as JSON.
C16_AsStated ==
    [][/\ (\E i \in 1..Len(runLog') : runLog'[i] = "click Save paper") =>
              question_papers' =
                  save_question_paper(question_papers, session.user_id,
                      callArgs.title, callArgs.kind, llmRet.value)
       /\ (\E i \in 1..Len(runLog') : runLog'[i] = "click Save timetable") =>
              timetables' =
                  save_timetable(timetables, session.user_id, callArgs.name,
                                 json_dumps(ttOut.rows))]_vars

\* ------------------------------------------------------------------------
\* Properties of register_user calls that run at the same time
\* ------------------------------------------------------------------------
UsernamesDistinct ==
    \A i, j \in 1..Len(users) : users[i].username = users[j].username => i = j

CallsOf(u) == {p \in 1..Len(conns) : conns[p].username = u}

Finished(p) == conns[p].pc \in {"returned", "raised"}

ReturnedSuccess(p) == conns[p].pc = "returned" /\ conns[p].ret[1]

\* The usernames the table does not hold when the calls start
FreshUsernames == Usernames \ {RowWithoutRole.username}

C17_AtMostOneSuccess ==
    /\ UsernamesDistinct
    /\ \A u \in FreshUsernames :
           Cardinality({p \in CallsOf(u) : ReturnedSuccess(p)}) <= 1

\* ------------------------------------------------------------------------
\* Properties of retrieve
\* ------------------------------------------------------------------------
RetrieveCalled == runLog = <<"retrieve">>

\* The rows retrieve may return: among the first k of the order, above 0.01
TopRows(a) ==
    {a.idxs[j] : j \in {j \in 1..Len(a.idxs) :
                            j <= a.k /\ a.sims[a.idxs[j]] > SimThreshold}}

\* retrieve gets past its first line and every row it keeps has a chunk
RetrieveAnswers(a) ==
    /\ a.vectorizer.fitted /\ a.matrix.fitted /\ a.query # ""
    /\ \A i \in TopRows(a) : i <= Len(a.chunks)

\* C18: retrieve returns at most k pairs (chunk, score) in order of
\* non-increasing score; every pair is chunks[i] with the similarity of row
\* i, every score is above 0.01, and every row that is among the k highest
\* of the order and above 0.01 is returned; without a vectorizer, without a
\* matrix, with an empty query or when an exception occurs the result is [].
C18_Retrieve ==
    RetrieveCalled =>
        LET a == callArgs
            n == Len(callRet)
        IN  /\ n <= a.k
            /\ \A j \in 1..n - 1 : callRet[j][2] >= callRet[j + 1][2]
            /\ \A j \in 1..n : callRet[j][2] > SimThreshold
            /\ \A j \in 1..n :
                   \E i \in 1..Len(a.chunks) :
                       callRet[j] = <<a.chunks[i], a.sims[i]>>
            /\ RetrieveAnswers(a) =>
                   /\ n = Cardinality(TopRows(a))
                   /\ \A i \in TopRows(a) :
                          \E j \in 1..n :
                              callRet[j] = <<a.chunks[i], a.sims[i]>>
                   \* no row outside the result scores higher than one in it
                   /\ \A i \in 1..Len(a.sims) :
                          i \notin TopRows(a) /\ a.sims[i] > SimThreshold
                              => /\ n = a.k
                                 /\ \A j \in 1..n : callRet[j][2] >= a.sims[i]
            /\ ~RetrieveAnswers(a) => callRet = <<>>

\* retrieve has returned two pairs of different scores and has left out a
\* third row above 0.01 because k is 2
C18_Witness ==
    /\ RetrieveCalled
    /\ Len(callRet) = 2 /\ callArgs.k = 2
    /\ callRet[1][2] > callRet[2][2]
    /\ \E i \in 1..Len(callArgs.sims) :
           callArgs.sims[i] > SimThreshold /\ i \notin TopRows(callArgs)

\* ------------------------------------------------------------------------
\* Properties of pdfs_to_text_chunks
\* ------------------------------------------------------------------------
ChunksCalled == runLog = <<"pdfs_to_text_chunks">>

\* The files that PdfReader and extract_text read without an exception
Readable(files) == SelectSeq(files, LAMBDA f : ~PdfReader(f).raised)

\* The chunks the sentence loop builds from the readable files, before the
\* short ones are dropped
LoopChunks(files, chunk_size, overlap) ==
    LET texts == SelectSeq([f \in 1..Len(files) |-> DocText(files[f])],
                           LAMBDA d : d # <<>>)
    IN  IF texts = <<>> THEN <<>>
        ELSE ChunkLoop(SplitSentences(JoinTexts(<<Run("\n", 2)>>, texts)),
                       1, chunk_size, overlap, <<>>, <<>>)

\* C19: pdfs_to_text_chunks skips a file whose parsing raises, with one
\* warning per such file; the file contributes no text, the other files are
\* processed in order as if the bad ones had not been handed in; the call
\* returns a list in every case, and the list is empty exactly when no file
\* yields non-empty text or no chunk of more than 20 characters results.
C19_SkipsBadFiles ==
    ChunksCalled =>
        LET a == callArgs
            good == Readable(a.files)
            loop == LoopChunks(good, a.params[1], a.params[2])
        IN  /\ Len(callRet.warnings) = Len(a.files) - Len(good)
            /\ \A i \in 1..Len(callRet.warnings) :
                   PdfReader(callRet.warnings[i]).raised
            /\ callRet.chunks =
                   pdfs_to_text_chunks(good, a.params[1], a.params[2])
            /\ callRet.chunks = <<>> <=>
                   \/ \A i \in 1..Len(good) : DocText(good[i]) = <<>>
                   \/ \A j \in 1..Len(loop) : TLen(loop[j]) <= 20

\* A list with a file that cannot be read between two files with text has
\* been chunked
C19_Witness ==
    /\ ChunksCalled
    /\ callArgs.files = <<"syllabus", "broken", "notes">>
    /\ Len(callRet.warnings) = 1
    /\ callRet.chunks # <<>>

====
